---- MODULE Spec2Model ----
(***************************************************************************)
(* McTavish runtime core: the memory graph store, the collapse engine, the *)
(* character kernel, the premonition matcher and the interaction binding   *)
(* logic, assembled as in the McTavish class.                              *)
(*                                                                         *)
(* Vocabulary of the specification versus the source:                      *)
(*   stimulus = fracture, reaction = fold, echo = premonition,             *)
(*   actor = character, Graph Store = MemoryGraphStore,                    *)
(*   Stimulus Engine = CollapseEngine, Echo Matcher = PremonitionMatcher,  *)
(*   Binding Resolver = InteractionBindingLogic.                           *)
(***************************************************************************)
EXTENDS Integers, Sequences, FiniteSets, TLC

(***************************************************************************)
(* Bounds of the model.                                                    *)
(***************************************************************************)
\* calls of PremonitionMatcher.processFracture in one behaviour
MaxCalls == 3
\* ids drawn from uuidv4() in one behaviour
MaxUuid == 6
\* largest validity window (in turns) given to a premonition
MaxWindow == 1
\* characters created in one behaviour
MaxCharacters == 1

\* the number of operations invoked on the interaction binding logic
MaxBindingCalls == 4

(***************************************************************************)
(* Values.                                                                 *)
(***************************************************************************)
\* an optional id that is absent (undefined / null)
Undefined == 0

\* ids a caller chooses for the fractures, folds and premonitions it builds
FractureIds == {11, 12}
FoldIds == {21, 22}
PremonitionIds == {31, 32}
\* ids uuidv4() hands out, in order
UuidOf(n) == 100 + n

\* the empty (or absent) metadata bag
NoMeta == [k \in {} |-> 0]

\* b's keys override a's: the object spread {...a, ...b}
Spread(a, b) ==
  [k \in (DOMAIN a) \cup (DOMAIN b) |-> IF k \in DOMAIN b THEN b[k] ELSE a[k]]

\* m with key k set to v (Map.set)
MapSet(m, k, v) == [x \in (DOMAIN m) \cup {k} |-> IF x = k THEN v ELSE m[x]]

\* m without key k (Map.delete)
MapDelete(m, k) == [x \in (DOMAIN m) \ {k} |-> m[x]]

\* the empty Map
EmptyMap == [k \in {} |-> 0]

(***************************************************************************)
(* Numbers: the reals of the source are exact rationals <<n, d>>, d > 0,   *)
(* in lowest terms.                                                        *)
(***************************************************************************)
Abs(x) == IF x < 0 THEN -x ELSE x

RECURSIVE Gcd(_, _)
Gcd(a, b) == IF b = 0 THEN a ELSE Gcd(b, a % b)

Rat(n, d) ==
  LET g == Gcd(Abs(n), Abs(d))
      s == IF d < 0 THEN -1 ELSE 1
  IN  IF n = 0 THEN <<0, 1>> ELSE <<(s * n) \div g, (s * d) \div g>>

\* the operations divide by common factors before they multiply, to keep the
\* numbers small
RAdd(x, y) ==
  LET g == Gcd(x[2], y[2])
  IN  Rat(x[1] * (y[2] \div g) + y[1] * (x[2] \div g), (x[2] \div g) * y[2])
RSub(x, y) == RAdd(x, <<-y[1], y[2]>>)
RMul(x, y) ==
  LET g1 == Gcd(Abs(x[1]), y[2])
      g2 == Gcd(Abs(y[1]), x[2])
  IN  Rat((x[1] \div g1) * (y[1] \div g2), (x[2] \div g2) * (y[2] \div g1))
RLt(x, y) ==
  LET g == Gcd(x[2], y[2])
  IN  x[1] * (y[2] \div g) < y[1] * (x[2] \div g)
RLe(x, y) ==
  LET g == Gcd(x[2], y[2])
  IN  x[1] * (y[2] \div g) <= y[1] * (x[2] \div g)
RMin(x, y) == IF RLe(x, y) THEN x ELSE y
RMax(x, y) == IF RLe(x, y) THEN y ELSE x
ROne == <<1, 1>>
RZero == <<0, 1>>

(***************************************************************************)
(* Text: a string is a sequence of one-character strings.                  *)
(***************************************************************************)
UpperCase == <<"A", "B", "C", "D", "E", "F", "G", "H", "I", "J", "K", "L", "M",
               "N", "O", "P", "Q", "R", "S", "T", "U", "V", "W", "X", "Y", "Z">>
LowerCase == <<"a", "b", "c", "d", "e", "f", "g", "h", "i", "j", "k", "l", "m",
               "n", "o", "p", "q", "r", "s", "t", "u", "v", "w", "x", "y", "z">>

LowerChar(c) ==
  IF \E i \in 1..Len(UpperCase) : UpperCase[i] = c
  THEN LowerCase[CHOOSE i \in 1..Len(UpperCase) : UpperCase[i] = c]
  ELSE c

\* String.prototype.toLowerCase
ToLowerCase(text) == [i \in 1..Len(text) |-> LowerChar(text[i])]

\* what \s matches and trim() strips
IsSpace(c) == c \in {" ", "\t", "\n"}

RECURSIVE TrimStart(_)
TrimStart(text) ==
  IF text # <<>> /\ IsSpace(Head(text)) THEN TrimStart(Tail(text)) ELSE text

RECURSIVE TrimEnd(_)
TrimEnd(text) ==
  IF text # <<>> /\ IsSpace(text[Len(text)])
  THEN TrimEnd(SubSeq(text, 1, Len(text) - 1))
  ELSE text

\* String.prototype.trim
Trim(text) == TrimEnd(TrimStart(text))

\* text.split(/\s+/): the pieces between maximal runs of whitespace; cur is the
\* piece being read, inRun whether the previous character was whitespace
RECURSIVE SplitFrom(_, _, _)
SplitFrom(text, cur, inRun) ==
  IF text = <<>> THEN <<cur>>
  ELSE IF IsSpace(Head(text))
       THEN IF inRun THEN SplitFrom(Tail(text), cur, TRUE)
            ELSE <<cur>> \o SplitFrom(Tail(text), <<>>, TRUE)
       ELSE SplitFrom(Tail(text), Append(cur, Head(text)), FALSE)

SplitWhitespace(text) == SplitFrom(text, <<>>, FALSE)

\* new Set(array)
SetOf(seq) == {seq[i] : i \in 1..Len(seq)}

\* String.prototype.includes
Includes(text, part) ==
  \E i \in 0..(Len(text) - Len(part)) : SubSeq(text, i + 1, i + Len(part)) = part

(***************************************************************************)
(* A JavaScript Map: the keys in insertion order and the value of each.    *)
(***************************************************************************)
NewMap == [keys |-> <<>>, at |-> EmptyMap]

Has(m, k) == k \in DOMAIN m.at

\* Map.get, for a key that is present
Get(m, k) == m.at[k]

\* Map.set: a new key goes last, a present key keeps its place
Set(m, k, v) ==
  [keys |-> IF Has(m, k) THEN m.keys ELSE Append(m.keys, k),
   at |-> MapSet(m.at, k, v)]

\* Map.delete
Delete(m, k) ==
  [keys |-> SelectSeq(m.keys, LAMBDA x : x # k), at |-> MapDelete(m.at, k)]

\* Array.from(m.values())
Values(m) == [i \in 1..Len(m.keys) |-> m.at[m.keys[i]]]

Size(m) == Len(m.keys)

(***************************************************************************)
(* State.                                                                  *)
(***************************************************************************)
VARIABLES
  config,              \* McTavishConfig
  memoryGraph,         \* MemoryGraphStore: nodes, edges, graph (graphlib)
  characterKernel,     \* CharacterKernel: characters, emotionalStates
  collapseEngine,      \* CollapseEngine: activeFractures, pendingFolds, pendingPremonitions
  premonitionMatcher,  \* PremonitionMatcher: activePremonitions, turnCounter
  interactionBinding,  \* InteractionBindingLogic: pendingBindings, selectedResponses
  uuidCount,           \* how many ids uuidv4() has handed out
  now,                 \* Date.now()
  emitted,             \* the events the last operation emitted, in order
  lastOp,              \* the last operation: its name, arguments and outcome
  matcherCalls,        \* PremonitionMatcher.processFracture calls so far
  registeredAt,        \* premonition id -> turn and window of its last addPremonition
  expiryCount,         \* premonition id -> premonitionExpired events so far
  bindCount,           \* premonition id -> times it was bound so far
  bindingCalls,        \* operations invoked on the interaction binding logic so far
  calls                \* the steps the last operation took inside the engine, in order

vars == <<config, memoryGraph, characterKernel, collapseEngine, premonitionMatcher,
          interactionBinding, uuidCount, now, emitted, lastOp, matcherCalls,
          registeredAt, expiryCount, bindCount, bindingCalls, calls>>

(***************************************************************************)
(* MemoryGraphStore.                                                       *)
(* graph is the graphlib Graph({directed: true}): not a multigraph, so it  *)
(* keeps one label per (source, target); sucs is each node's successors in *)
(* the order their first edge was set.  The node set of graph is that of   *)
(* nodes: addNode and clear change both together.                          *)
(***************************************************************************)
NewGraph == [label |-> EmptyMap, sucs |-> EmptyMap]

NewMemoryGraph == [nodes |-> NewMap, edges |-> NewMap, graph |-> NewGraph]

\* graph.hasNode
HasNode(g, id) == Has(g.nodes, id)

\* MemoryGraphStore.getNode; Undefined when absent
GetNode(g, id) == IF Has(g.nodes, id) THEN Get(g.nodes, id) ELSE Undefined

\* MemoryGraphStore.addNode
AddNode(g, node) == [g EXCEPT !.nodes = Set(g.nodes, node.id, node)]

\* a key of the edges Map that leaves the type out
EdgeIdWithoutType(edge) == <<edge.source, edge.target>>

\* the key of the edges Map: `${source}-${target}-${type}`
EdgeId(edge) == <<edge.source, edge.target, edge.type>>

\* graph.setEdge(v, w, label)
SetEdge(gr, v, w, label) ==
  [label |-> MapSet(gr.label, <<v, w>>, label),
   sucs |-> IF <<v, w>> \in DOMAIN gr.label THEN gr.sucs
            ELSE MapSet(gr.sucs, v,
                        Append(IF v \in DOMAIN gr.sucs THEN gr.sucs[v] ELSE <<>>, w))]

\* addEdge that looks for the source node only
AddEdgeSourceOnly(g, edge) ==
  IF ~HasNode(g, edge.source)
  THEN [ok |-> FALSE, g |-> g]
  ELSE [ok |-> TRUE,
        g |-> [g EXCEPT !.edges = Set(g.edges, EdgeId(edge), edge),
                        !.graph = SetEdge(g.graph, edge.source, edge.target, edge)]]

\* MemoryGraphStore.addEdge: ok is FALSE when it throws, and g is then unchanged
AddEdge(g, edge) ==
  IF ~HasNode(g, edge.source) \/ ~HasNode(g, edge.target)
  THEN [ok |-> FALSE, g |-> g]
  ELSE [ok |-> TRUE,
        g |-> [g EXCEPT !.edges = Set(g.edges, EdgeId(edge), edge),
                        !.graph = SetEdge(g.graph, edge.source, edge.target, edge)]]

\* MemoryGraphStore.addFracture
AddFracture(g, fracture) ==
  AddNode(g, [id |-> fracture.id, type |-> "fracture", content |-> fracture.content,
              timestamp |-> fracture.timestamp, metadata |-> fracture.metadata])

\* MemoryGraphStore.addFold: the node, then the causality edge fracture -> fold
\* when the fold names a fracture; ok is FALSE when that addEdge throws, and
\* the node has been added by then
AddFold(g, fold) ==
  LET node == [id |-> fold.id, type |-> "fold", content |-> fold.content,
               timestamp |-> fold.timestamp,
               metadata |-> Spread([characterId |-> fold.characterId,
                                    emotionalState |-> fold.emotionalState],
                                   fold.metadata)]
      g1 == AddNode(g, node)
  IN  IF fold.fractureEventId # Undefined
      THEN AddEdge(g1, [source |-> fold.fractureEventId, target |-> fold.id,
                        type |-> "causality", weight |-> ROne, metadata |-> NoMeta])
      ELSE [ok |-> TRUE, g |-> g1]

\* MemoryGraphStore.addPremonition
AddPremonition(g, premonition) ==
  AddNode(g, [id |-> premonition.id, type |-> "premonition",
              content |-> premonition.content, timestamp |-> premonition.timestamp,
              metadata |-> Spread([characterId |-> premonition.characterId,
                                   emotionalState |-> premonition.emotionalState,
                                   validityWindow |-> premonition.validityWindow,
                                   bindingCriteria |-> premonition.bindingCriteria],
                                  premonition.metadata)])

\* MemoryGraphStore.getNodesByType
GetNodesByType(g, type) == SelectSeq(Values(g.nodes), LAMBDA n : n.type = type)

\* MemoryGraphStore.getEdgesBetween
GetEdgesBetween(g, sourceId, targetId) ==
  IF <<sourceId, targetId>> \in DOMAIN g.graph.label
  THEN <<g.graph.label[<<sourceId, targetId>>]>>
  ELSE <<>>

\* MemoryGraphStore.createDivergence
CreateDivergence(g, sourceId, targetId, weight) ==
  AddEdge(g, [source |-> sourceId, target |-> targetId, type |-> "divergence",
              weight |-> weight, metadata |-> NoMeta])

\* MemoryGraphStore.createEmotionalLink
CreateEmotionalLink(g, sourceId, targetId, weight) ==
  AddEdge(g, [source |-> sourceId, target |-> targetId, type |-> "emotional",
              weight |-> weight, metadata |-> NoMeta])

\* the default weight of createDivergence
DefaultDivergenceWeight == <<1, 2>>

(***************************************************************************)
(* The world an operation runs in: the components it may change, the ids   *)
(* and random numbers it draws, the events it emits, and whether it has    *)
(* thrown.  An operation is an operator from a world to a world; the       *)
(* listeners McTavish wires run inside the operation that emits to them.   *)
(***************************************************************************)
World(random) ==
  [memoryGraph |-> memoryGraph, characterKernel |-> characterKernel,
   collapseEngine |-> collapseEngine, premonitionMatcher |-> premonitionMatcher,
   interactionBinding |-> interactionBinding, uuidCount |-> uuidCount,
   random |-> random, emitted |-> <<>>, thrown |-> FALSE, ret |-> "void",
   calls |-> <<>>, failing |-> {},
   registeredAt |-> registeredAt, expiryCount |-> expiryCount,
   bindCount |-> bindCount]

\* an event as the observers see it: its name and the ids it carries
Event(name, a, b) == [ev |-> name, a |-> a, b |-> b]

\* EventEmitter.emit, for the listeners outside the core
Emit(w, event) == [w EXCEPT !.emitted = Append(w.emitted, event)]

\* a step of the running operation is noted: what it does, the character it
\* concerns and the number it read
Step(w, step, id, x) ==
  [w EXCEPT !.calls = Append(w.calls, [step |-> step, id |-> id, x |-> x])]

\* uuidv4(): the id the next call returns, and the world after the call
NextUuid(w) == UuidOf(w.uuidCount + 1)
DrawUuid(w) == [w EXCEPT !.uuidCount = w.uuidCount + 1]

\* a throw: the operation stops here
Throw(w) == [w EXCEPT !.thrown = TRUE]

\* the listeners a caller has added to the components, which run after the
\* ones McTavish and the binding logic registered at construction: the
\* listener of an event named in w.failing throws, and the throw leaves
\* emit() and the method that called it
Notify(w, name) == IF name \in w.failing /\ ~w.thrown THEN Throw(w) ELSE w

(***************************************************************************)
(* InteractionBindingLogic.                                                *)
(***************************************************************************)
NewInteractionBinding == [pendingBindings |-> NewMap, selectedResponses |-> NewMap]

\* a fresh BindingState
NewBindingState(fractureId) ==
  [fractureId |-> fractureId, boundFoldIds |-> <<>>, selectedFoldId |-> Undefined,
   timestamp |-> now, status |-> "pending"]

\* Array.prototype.includes
SeqIncludes(seq, x) == \E i \in 1..Len(seq) : seq[i] = x

\* a calculateContentSimilarity that compares the words without lower-casing
CalculateContentSimilarityCaseSensitive(text1, text2) ==
  LET wordSet1 == SetOf(SplitWhitespace(Trim(text1)))
      wordSet2 == SetOf(SplitWhitespace(Trim(text2)))
      matchCount == Cardinality({word \in wordSet1 : word \in wordSet2})
      unionSize == Cardinality(wordSet1) + Cardinality(wordSet2) - matchCount
  IN  IF unionSize > 0 THEN Rat(matchCount, unionSize) ELSE RZero

\* InteractionBindingLogic.calculateContentSimilarity
CalculateContentSimilarity(text1, text2) ==
  LET wordSet1 == SetOf(SplitWhitespace(Trim(ToLowerCase(text1))))
      wordSet2 == SetOf(SplitWhitespace(Trim(ToLowerCase(text2))))
      matchCount == Cardinality({word \in wordSet1 : word \in wordSet2})
      unionSize == Cardinality(wordSet1) + Cardinality(wordSet2) - matchCount
  IN  IF unionSize > 0 THEN Rat(matchCount, unionSize) ELSE RZero

\* InteractionBindingLogic.bindFoldToFracture
BindFoldToFracture(w, foldId, fractureId) ==
  LET pb == w.interactionBinding.pendingBindings
      pb1 == IF Has(pb, fractureId) THEN pb
             ELSE Set(pb, fractureId, NewBindingState(fractureId))
      bs == Get(pb1, fractureId)
      bs1 == IF SeqIncludes(bs.boundFoldIds, foldId) THEN bs
             ELSE [bs EXCEPT !.boundFoldIds = Append(bs.boundFoldIds, foldId)]
  IN  Emit([w EXCEPT !.interactionBinding.pendingBindings = Set(pb1, fractureId, bs1)],
           Event("fold_binding", foldId, fractureId))

\* InteractionBindingLogic.storeDeferredFold
StoreDeferredFold(w, fold) == Emit(w, Event("deferred_fold", fold.id, Undefined))

\* !node.metadata?.fractureEventId
LacksFractureEventId(node) ==
  \/ "fractureEventId" \notin DOMAIN node.metadata
  \/ node.metadata.fractureEventId = Undefined

\* the threshold a deferred fold's similarity has to exceed
DeferredBindingThreshold == <<1, 2>>

\* the body of the loop of checkDeferredBindings, for the folds still to visit
RECURSIVE CheckDeferredFolds(_, _, _)
CheckDeferredFolds(w, deferredFolds, fracture) ==
  IF deferredFolds = <<>> \/ w.thrown THEN w
  ELSE LET foldNode == Head(deferredFolds)
           contentSimilarity == CalculateContentSimilarity(foldNode.content,
                                                           fracture.content)
           added == AddEdge(w.memoryGraph,
                            [source |-> foldNode.id, target |-> fracture.id,
                             type |-> "causality", weight |-> contentSimilarity,
                             metadata |-> [bindingType |-> "deferred",
                                           bindingTimestamp |-> now,
                                           fractureEventId |-> fracture.id]])
           w1 == IF ~RLt(DeferredBindingThreshold, contentSimilarity) THEN w
                 ELSE IF ~added.ok THEN Throw(w)
                 ELSE BindFoldToFracture([w EXCEPT !.memoryGraph = added.g],
                                         foldNode.id, fracture.id)
       IN  CheckDeferredFolds(w1, Tail(deferredFolds), fracture)

\* InteractionBindingLogic.checkDeferredBindings
CheckDeferredBindings(w, fracture) ==
  CheckDeferredFolds(w,
                     SelectSeq(GetNodesByType(w.memoryGraph, "fold"),
                               LacksFractureEventId),
                     fracture)

\* InteractionBindingLogic.processFracture
BindingProcessFracture(w, fracture) ==
  LET w1 == [w EXCEPT !.memoryGraph = AddFracture(w.memoryGraph, fracture)]
      w2 == CheckDeferredBindings(w1, fracture)
  IN  IF w2.thrown THEN w2
      ELSE [w2 EXCEPT !.interactionBinding.pendingBindings =
                        Set(w2.interactionBinding.pendingBindings, fracture.id,
                            NewBindingState(fracture.id))]

\* InteractionBindingLogic.processFold
ProcessFold(w, fold) ==
  LET added == AddFold(w.memoryGraph, fold)
      w1 == [w EXCEPT !.memoryGraph = added.g]
  IN  IF ~added.ok THEN Throw(w1)
      ELSE IF fold.fractureEventId # Undefined
           THEN BindFoldToFracture(w1, fold.id, fold.fractureEventId)
           ELSE StoreDeferredFold(w1, fold)

\* InteractionBindingLogic.processBoundInteraction
ProcessBoundInteraction(w, binding) ==
  IF ~HasNode(w.memoryGraph, binding.premonitionId)
     \/ ~HasNode(w.memoryGraph, binding.fractureId)
  THEN w
  ELSE LET pb == w.interactionBinding.pendingBindings
           pb1 == IF Has(pb, binding.fractureId) THEN pb
                  ELSE Set(pb, binding.fractureId, NewBindingState(binding.fractureId))
           bs == Get(pb1, binding.fractureId)
           bs1 == [bs EXCEPT !.boundFoldIds = Append(bs.boundFoldIds,
                                                     binding.premonitionId)]
       IN  Emit([w EXCEPT !.interactionBinding.pendingBindings =
                            Set(pb1, binding.fractureId, bs1)],
                Event("premonition_binding", binding.premonitionId, binding.fractureId))

\* InteractionBindingLogic.handlePremonitionBinding
HandlePremonitionBinding(w, binding) == ProcessBoundInteraction(w, binding)

\* InteractionBindingLogic.selectResponse
SelectResponse(w, foldId) ==
  LET foldNode == GetNode(w.memoryGraph, foldId)
      fractureId == foldNode.metadata.fractureEventId
      pb == w.interactionBinding.pendingBindings
      bs == Get(pb, fractureId)
      w1 == [w EXCEPT !.interactionBinding.pendingBindings =
                        Set(pb, fractureId, [bs EXCEPT !.selectedFoldId = foldId,
                                                       !.status = "resolved"]),
                      !.interactionBinding.selectedResponses =
                        Set(w.interactionBinding.selectedResponses, fractureId, foldId)]
      added == AddEdge(w1.memoryGraph,
                       [source |-> fractureId, target |-> foldId, type |-> "causality",
                        weight |-> ROne,
                        metadata |-> [selected |-> TRUE, selectionTimestamp |-> now]])
  IN  IF ~HasNode(w.memoryGraph, foldId) THEN w
      ELSE IF foldNode.type # "fold" THEN w
      ELSE IF LacksFractureEventId(foldNode) THEN w
      ELSE IF ~Has(pb, fractureId) THEN w
      ELSE IF ~added.ok THEN Throw(w1)
      ELSE Emit([w1 EXCEPT !.memoryGraph = added.g],
                Event("response_selection", foldId, fractureId))

\* InteractionBindingLogic.getResponsesForFracture
GetResponsesForFracture(ib, fractureId) ==
  IF Has(ib.pendingBindings, fractureId)
  THEN Get(ib.pendingBindings, fractureId).boundFoldIds
  ELSE <<>>

\* InteractionBindingLogic.getSelectedResponse; Undefined stands for null
GetSelectedResponse(ib, fractureId) ==
  IF Has(ib.selectedResponses, fractureId)
  THEN Get(ib.selectedResponses, fractureId)
  ELSE Undefined

\* forkAtNode with the divergence edge running from the fork to its original
ForkAtNodeEdgeReversed(g, nodeId, newId) ==
  LET originalNode == Get(g.nodes, nodeId)
      forkedNode == [originalNode EXCEPT
                       !.id = newId, !.timestamp = now,
                       !.metadata = Spread(originalNode.metadata,
                                           [forkedFrom |-> nodeId])]
  IN  CreateDivergence(AddNode(g, forkedNode), newId, nodeId,
                       DefaultDivergenceWeight).g

\* MemoryGraphStore.forkAtNode, for a node that exists: the new node takes the
\* next uuid
ForkAtNode(g, nodeId, newId) ==
  LET originalNode == Get(g.nodes, nodeId)
      forkedNode == [originalNode EXCEPT
                       !.id = newId, !.timestamp = now,
                       !.metadata = Spread(originalNode.metadata,
                                           [forkedFrom |-> nodeId])]
  IN  CreateDivergence(AddNode(g, forkedNode), nodeId, newId,
                       DefaultDivergenceWeight).g

\* InteractionBindingLogic.forkFracture
ForkFracture(w, fractureId) ==
  IF ~HasNode(w.memoryGraph, fractureId) THEN Throw(w)
  ELSE LET forkedFractureId == NextUuid(w)
           w1 == [DrawUuid(w) EXCEPT
                    !.memoryGraph = ForkAtNode(w.memoryGraph, fractureId,
                                               forkedFractureId)]
       IN  Emit([w1 EXCEPT !.interactionBinding.pendingBindings =
                             Set(w1.interactionBinding.pendingBindings,
                                 forkedFractureId, NewBindingState(forkedFractureId))],
                Event("fracture_fork", fractureId, forkedFractureId))

\* InteractionBindingLogic.createReverseBinding
CreateReverseBinding(w, foldId, content) ==
  LET fracture == [id |-> NextUuid(w), content |-> content, timestamp |-> now,
                   source |-> "system",
                   metadata |-> [reverseBindingFoldId |-> foldId]]
      w1 == [DrawUuid(w) EXCEPT !.memoryGraph = AddFracture(w.memoryGraph, fracture)]
      w2 == BindFoldToFracture(w1, foldId, fracture.id)
      added == AddEdge(w2.memoryGraph,
                       [source |-> foldId, target |-> fracture.id,
                        type |-> "causality", weight |-> ROne,
                        metadata |-> [reverseBinding |-> TRUE,
                                      bindingTimestamp |-> now]])
  IN  IF ~added.ok THEN Throw(w2)
      ELSE Emit([w2 EXCEPT !.memoryGraph = added.g],
                Event("reverse_binding", foldId, fracture.id))

(***************************************************************************)
(* Math.random(): the numbers the next calls return, drawn in order.       *)
(***************************************************************************)
Random(w) == Head(w.random)
DrawRandom(w) == [w EXCEPT !.random = Append(Tail(w.random), Head(w.random))]

\* Math.floor of a rational that is not negative
Floor(x) == x[1] \div x[2]

(***************************************************************************)
(* CharacterKernel.  The variations object of a tone profile is shared by  *)
(* every profile that was copied from it ({...toneProfile} copies the      *)
(* reference) and is written in place, so it lives in a heap,              *)
(* variationsHeap, and a tone profile holds its address.                   *)
(***************************************************************************)
NewCharacterKernel ==
  [characters |-> NewMap, emotionalStates |-> NewMap, variationsHeap |-> <<>>]

\* an optional number that is absent
NoNumber == <<0, 0>>

DefaultVariations ==
  [joy |-> <<1, 5>>, sadness |-> <<1, 5>>, anger |-> <<1, 10>>, fear |-> <<1, 10>>,
   surprise |-> <<1, 5>>, disgust |-> <<1, 10>>]

DefaultDriftDirections ==
  [openness |-> <<1, 5>>, conscientiousness |-> <<1, 5>>, extraversion |-> <<1, 5>>,
   agreeableness |-> <<1, 5>>, neuroticism |-> <<1, 5>>]

\* MemoryGraphStore.addMemory, with the id uuidv4() returned
AddMemory(g, id, content, characterId, metadata) ==
  AddNode(g, [id |-> id, type |-> "memory", content |-> content, timestamp |-> now,
              metadata |-> Spread([characterId |-> characterId], metadata)])

\* CharacterKernel.createCharacter; a toneProfile that brings its own variations
\* brings a new object
CreateCharacter(w, name, toneProfile, mutationSchema, collapseThreshold) ==
  LET memoryAnchorId == NextUuid(w)
      w1 == [DrawUuid(w) EXCEPT
               !.memoryGraph = AddMemory(w.memoryGraph, memoryAnchorId,
                                         <<"C", "h", "a", "r", "a", "c", "t", "e", "r", " ", "c", "r", "e", "a", "t", "i", "o", "n", ":", " ">> \o name,
                                         "system", [type |-> "character_anchor"])]
      id == NextUuid(w1)
      w2 == DrawUuid(w1)
      heap == w2.characterKernel.variationsHeap
      variations == IF "variations" \in DOMAIN toneProfile THEN toneProfile.variations
                    ELSE DefaultVariations
      character ==
        [id |-> id, name |-> name,
         toneProfile |-> Spread([baseline |-> "neutral", variations |-> Len(heap) + 1,
                                 adaptability |-> <<1, 2>>],
                                [k \in (DOMAIN toneProfile) \ {"variations"} |->
                                   toneProfile[k]]),
         mutationSchema |-> Spread([driftRate |-> config.mutationRate,
                                    driftDirections |-> DefaultDriftDirections,
                                    stabilityFactors |->
                                      <<"core_memory", "repeated_interaction">>],
                                   mutationSchema),
         memoryAnchor |-> memoryAnchorId,
         collapseThreshold |-> IF collapseThreshold = NoNumber
                               THEN config.defaultCollapseThreshold
                               ELSE collapseThreshold]
  IN  [w2 EXCEPT
         !.characterKernel.variationsHeap = Append(heap, variations),
         !.characterKernel.emotionalStates =
           Set(w2.characterKernel.emotionalStates, id,
               [dominant |-> character.toneProfile.baseline, intensity |-> <<1, 2>>,
                stability |-> <<7, 10>>]),
         !.characterKernel.characters = Set(w2.characterKernel.characters, id, character)]

\* CharacterKernel.getCharacters
GetCharacters(ck) == Values(ck.characters)

\* CharacterKernel.updateEmotionalState
UpdateEmotionalState(ck, characterId, emotionalState) ==
  IF ~Has(ck.emotionalStates, characterId) THEN ck
  ELSE [ck EXCEPT !.emotionalStates =
          Set(ck.emotionalStates, characterId,
              Spread(Get(ck.emotionalStates, characterId), emotionalState))]

\* the sum of the weights of the given emotions
RECURSIVE SumWeights(_, _)
SumWeights(variations, emotions) ==
  IF emotions = {} THEN RZero
  ELSE LET e == CHOOSE x \in emotions : TRUE
       IN  RAdd(variations[e], SumWeights(variations, emotions \ {e}))

\* x / y for y # 0
RDiv(x, y) == RMul(x, Rat(y[2], y[1]))

\* applyMutation's drift without the rescaling of the other emotions
DriftVariationsDominantOnly(variations, dominant, driftRate, intensity) ==
  [variations EXCEPT
     ![dominant] = RMin(ROne, RAdd(variations[dominant], RMul(driftRate, intensity)))]

\* the variations object after applyMutation's drift towards dominant
DriftVariations(variations, dominant, driftRate, intensity) ==
  LET raised == RMin(ROne, RAdd(variations[dominant], RMul(driftRate, intensity)))
      totalOtherWeight == RSub(ROne, raised)
      otherEmotions == (DOMAIN variations) \ {dominant}
      sumOtherWeights == SumWeights(variations, otherEmotions)
  IN  [e \in DOMAIN variations |->
         IF e = dominant THEN raised
         ELSE IF RLt(RZero, sumOtherWeights)
              THEN RMul(RDiv(variations[e], sumOtherWeights), totalOtherWeight)
              ELSE variations[e]]

\* the default threshold lowered by the intensity, left as it comes out
MutatedCollapseThresholdUnclamped(intensity) ==
  RSub(config.defaultCollapseThreshold, RMul(intensity, <<1, 5>>))

\* the collapse threshold applyMutation sets
MutatedCollapseThreshold(intensity) ==
  RMax(<<1, 10>>,
       RMin(<<9, 10>>, RSub(config.defaultCollapseThreshold,
                            RMul(intensity, <<1, 5>>))))

\* the stability applyMutation passes to updateEmotionalState:
\* Math.min(1, this.emotionalStates.get(characterId)?.stability ?? 0.5 + 0.1),
\* in which + binds tighter than ??
MutatedStability(ck, characterId) ==
  RMin(ROne, IF Has(ck.emotionalStates, characterId)
             THEN Get(ck.emotionalStates, characterId).stability
             ELSE RAdd(<<1, 2>>, <<1, 10>>))

\* CharacterKernel.applyMutation
ApplyMutation(ck, characterId, fold) ==
  IF ~Has(ck.characters, characterId) THEN ck
  ELSE LET character == Get(ck.characters, characterId)
           es == fold.emotionalState
           ck1 == UpdateEmotionalState(ck, characterId,
                    [dominant |-> es.dominant, intensity |-> es.intensity,
                     stability |-> MutatedStability(ck, characterId)])
           ref == character.toneProfile.variations
           variations == ck1.variationsHeap[ref]
           heap1 == IF es.dominant \in DOMAIN variations
                    THEN [ck1.variationsHeap EXCEPT ![ref] =
                            DriftVariations(variations, es.dominant,
                                            character.mutationSchema.driftRate,
                                            es.intensity)]
                    ELSE ck1.variationsHeap
           character1 ==
             [character EXCEPT
                !.toneProfile.baseline = IF RLt(<<7, 10>>, es.stability)
                                         THEN es.dominant ELSE @,
                !.collapseThreshold = MutatedCollapseThreshold(es.intensity)]
       IN  [ck1 EXCEPT !.variationsHeap = heap1,
                       !.characters = Set(ck1.characters, characterId, character1)]

\* the name forkCharacter gives the fork: `${original.name} (${nameModifier})`
ForkedName(name, nameModifier) == name \o <<" ", "(">> \o nameModifier \o <<")">>

\* CharacterKernel.forkCharacter: {...original} copies the references the
\* original holds, so the fork's tone profile has the original's variations
\* object
ForkCharacter(w, characterId, nameModifier) ==
  IF ~Has(w.characterKernel.characters, characterId) THEN Throw(w)
  ELSE LET original == Get(w.characterKernel.characters, characterId)
           newMemoryAnchorId == NextUuid(w)
           w1 == [DrawUuid(w) EXCEPT
                    !.memoryGraph =
                      AddMemory(w.memoryGraph, newMemoryAnchorId,
                                <<"C", "h", "a", "r", "a", "c", "t", "e", "r", " ", "f", "o", "r", "k", ":", " ">>
                                  \o original.name \o <<" ", "-", ">", " ">>
                                  \o ForkedName(original.name, nameModifier),
                                "system",
                                [type |-> "character_fork",
                                 originalCharacterId |-> characterId,
                                 originalMemoryAnchor |-> original.memoryAnchor])]
           linked == CreateEmotionalLink(w1.memoryGraph, original.memoryAnchor,
                                         newMemoryAnchorId, <<4, 5>>)
           diverged == CreateDivergence(linked.g, original.memoryAnchor,
                                        newMemoryAnchorId, <<1, 2>>)
           forkedCharacter == [original EXCEPT
                                 !.id = NextUuid(w1),
                                 !.name = ForkedName(original.name, nameModifier),
                                 !.memoryAnchor = newMemoryAnchorId]
           w2 == [DrawUuid(w1) EXCEPT
                    !.memoryGraph = diverged.g,
                    !.characterKernel.characters =
                      Set(@, forkedCharacter.id, forkedCharacter)]
       IN  IF ~linked.ok \/ ~diverged.ok
           THEN Throw([w1 EXCEPT !.memoryGraph = linked.g])
           ELSE [w2 EXCEPT
                   !.characterKernel.emotionalStates =
                     IF Has(@, characterId)
                     THEN Set(@, forkedCharacter.id, Get(@, characterId))
                     ELSE @,
                   !.ret = "characterId"]

\* the variations object after reconfigureCharacter has written it
ReconfiguredVariations(variations, emotionalState) ==
  LET dominantWeight == RMin(<<1, 2>>,
                             RAdd(<<3, 10>>, RMul(emotionalState.intensity, <<1, 5>>)))
      remainingWeight == RSub(ROne, dominantWeight)
      otherEmotions == (DOMAIN variations) \ {emotionalState.dominant}
  IN  [e \in (DOMAIN variations) \cup {emotionalState.dominant} |->
         IF e = emotionalState.dominant THEN dominantWeight
         ELSE RDiv(remainingWeight, <<Cardinality(otherEmotions), 1>>)]

\* CharacterKernel.reconfigureCharacter
ReconfigureCharacter(ck, characterId, emotionalState, collapseThresholdAdjustment) ==
  IF ~Has(ck.characters, characterId) THEN ck
  ELSE LET character == Get(ck.characters, characterId)
           ck1 == UpdateEmotionalState(ck, characterId, emotionalState)
           ref == character.toneProfile.variations
           character1 ==
             [character EXCEPT
                !.toneProfile.baseline = emotionalState.dominant,
                !.toneProfile.adaptability = RSub(ROne, emotionalState.stability),
                !.collapseThreshold =
                  RMax(<<1, 10>>,
                       RMin(<<9, 10>>, RAdd(@, collapseThresholdAdjustment)))]
       IN  [ck1 EXCEPT
              !.variationsHeap[ref] = ReconfiguredVariations(@, emotionalState),
              !.characters = Set(ck1.characters, characterId, character1)]

(***************************************************************************)
(* PremonitionMatcher.                                                     *)
(***************************************************************************)
NewPremonitionMatcher == [activePremonitions |-> NewMap, turnCounter |-> 0]

\* PremonitionMatcher.addPremonition
MatcherAddPremonition(w, premonition) ==
  LET pm == w.premonitionMatcher
  IN  [w EXCEPT
         !.memoryGraph = AddPremonition(w.memoryGraph, premonition),
         !.premonitionMatcher.activePremonitions =
           Set(pm.activePremonitions, premonition.id,
               [premonition |-> premonition,
                createdAtTurn |-> pm.turnCounter,
                expiresAtTurn |-> pm.turnCounter + premonition.validityWindow,
                bindingAttempts |-> 0,
                isBound |-> FALSE]),
         !.registeredAt = MapSet(w.registeredAt, premonition.id,
                                 [turn |-> pm.turnCounter,
                                  window |-> premonition.validityWindow])]

\* PremonitionMatcher.calculateBindingStrength
CalculateBindingStrength(criteria) ==
  RAdd(RAdd(RMul(criteria.contentSimilarity, <<2, 5>>),
            RMul(criteria.emotionalAlignment, <<3, 10>>)),
       IF Len(criteria.keywords) > 0
       THEN RMul(<<3, 10>>, RMin(ROne, Rat(Len(criteria.keywords), 5)))
       ELSE RZero)

\* PremonitionMatcher.calculateKeywordMatch
CalculateKeywordMatch(keywords, text) ==
  LET normalizedText == ToLowerCase(text)
      matchCount == Cardinality({i \in 1..Len(keywords) :
                                   Includes(normalizedText, ToLowerCase(keywords[i]))})
  IN  IF Len(keywords) > 0 THEN Rat(matchCount, Len(keywords)) ELSE RZero

\* PremonitionMatcher.calculateContentSimilarity
MatcherContentSimilarity(text1, text2) ==
  LET wordSet1 == SetOf(SplitWhitespace(Trim(ToLowerCase(text1))))
      wordSet2 == SetOf(SplitWhitespace(Trim(ToLowerCase(text2))))
      matchCount == Cardinality({word \in wordSet1 : word \in wordSet2})
      unionSize == Cardinality(wordSet1) + Cardinality(wordSet2) - matchCount
  IN  IF unionSize > 0 THEN Rat(matchCount, unionSize) ELSE RZero

\* PremonitionMatcher.calculateMatchScore
CalculateMatchScore(premonition, fracture) ==
  LET criteria == premonition.bindingCriteria
      contentSimilarity == MatcherContentSimilarity(premonition.content,
                                                    fracture.content)
      emotionalAlignment == <<1, 2>>
  IN  RAdd(RAdd(RMul(contentSimilarity, criteria.contentSimilarity),
                RMul(emotionalAlignment, criteria.emotionalAlignment)),
           IF Len(criteria.keywords) > 0
           THEN RMul(CalculateKeywordMatch(criteria.keywords, fracture.content),
                     <<3, 10>>)
           ELSE RZero)

\* PremonitionMatcher.getBindingThreshold.  A validity window of 0 divides by
\* zero: remainingTurns / 0 is NaN when no turn remains (the threshold is then
\* NaN), Infinity when turns remain (the threshold is Infinity) and -Infinity
\* when the window is exceeded (the expiration factor is then 0.2)
GetBindingThreshold(state, turnCounter) ==
  LET baseThreshold == <<7, 10>>
      attemptFactor == RMin(<<1, 5>>, RMul(<<state.bindingAttempts, 1>>, <<1, 20>>))
      remainingTurns == state.expiresAtTurn - turnCounter
      window == state.premonition.validityWindow
      expirationFactor ==
        IF window = 0 THEN <<1, 5>>
        ELSE RMin(<<1, 5>>, RMul(RSub(ROne, Rat(remainingTurns, window)), <<1, 5>>))
  IN  IF window = 0 /\ remainingTurns >= 0
      THEN [kind |-> IF remainingTurns = 0 THEN "NaN" ELSE "Infinity",
            value |-> RZero]
      ELSE [kind |-> "number",
            value |-> RMax(<<3, 10>>,
                           RSub(RSub(baseThreshold, attemptFactor), expirationFactor))]

\* matchScore >= threshold: false against NaN and against Infinity
MeetsThreshold(matchScore, threshold) ==
  threshold.kind = "number" /\ RLe(threshold.value, matchScore)

\* McTavish.handleBinding
HandleBinding(w, binding) == ProcessBoundInteraction(w, binding)

\* PremonitionMatcher.bindPremonition; the listeners of 'binding' are, in the
\* order they were registered, InteractionBindingLogic.handlePremonitionBinding
\* and McTavish.handleBinding
BindPremonition(w, premonition, fracture) ==
  LET binding == [premonitionId |-> premonition.id, fractureId |-> fracture.id,
                  timestamp |-> now,
                  matchScore |-> CalculateMatchScore(premonition, fracture)]
      added == AddEdge(w.memoryGraph,
                       [source |-> premonition.id, target |-> fracture.id,
                        type |-> "causality", weight |-> binding.matchScore,
                        metadata |-> [bindingTimestamp |-> binding.timestamp,
                                      bindingType |-> "premonition"]])
      w1 == Emit([w EXCEPT !.memoryGraph = added.g,
                           !.bindCount = MapSet(w.bindCount, premonition.id,
                                                IF premonition.id \in DOMAIN w.bindCount
                                                THEN w.bindCount[premonition.id] + 1
                                                ELSE 1)],
                 Event("binding", premonition.id, fracture.id))
  IN  IF ~added.ok THEN Throw(w)
      ELSE Notify(HandleBinding(HandlePremonitionBinding(w1, binding), binding),
                  "binding")

\* the sorted array with one more state put in its place: behind every state at
\* least as strong (Array.prototype.sort is stable)
RECURSIVE InsertByStrength(_, _)
InsertByStrength(sorted, state) ==
  IF sorted = <<>> THEN <<state>>
  ELSE IF RLt(CalculateBindingStrength(Head(sorted).premonition.bindingCriteria),
              CalculateBindingStrength(state.premonition.bindingCriteria))
       THEN <<state>> \o sorted
       ELSE <<Head(sorted)>> \o InsertByStrength(Tail(sorted), state)

\* premonitionStates.sort((a, b) => bScore - aScore)
RECURSIVE SortByStrength(_)
SortByStrength(states) ==
  IF states = <<>> THEN <<>>
  ELSE InsertByStrength(SortByStrength(SubSeq(states, 1, Len(states) - 1)),
                        states[Len(states)])

\* the loop of processFracture over the sorted states still to visit; a state
\* is the object the Map holds, so it is read and written through its id
RECURSIVE MatchStates(_, _, _)
MatchStates(w, ids, fracture) ==
  IF ids = <<>> \/ w.thrown THEN w
  ELSE LET pm == w.premonitionMatcher
           id == Head(ids)
           state == Get(pm.activePremonitions, id)
           state1 == [state EXCEPT !.bindingAttempts = @ + 1]
           w1 == [w EXCEPT !.premonitionMatcher.activePremonitions =
                             Set(pm.activePremonitions, id, state1)]
           matchScore == CalculateMatchScore(state.premonition, fracture)
           bound == BindPremonition(w1, state.premonition, fracture)
           w2 == IF state.isBound \/ pm.turnCounter > state.expiresAtTurn THEN w
                 ELSE IF ~MeetsThreshold(matchScore,
                                         GetBindingThreshold(state1, pm.turnCounter))
                 THEN w1
                 ELSE IF bound.thrown THEN bound
                 ELSE [bound EXCEPT !.premonitionMatcher.activePremonitions =
                                      Set(bound.premonitionMatcher.activePremonitions,
                                          id, [state1 EXCEPT !.isBound = TRUE])]
       IN  MatchStates(w2, Tail(ids), fracture)

\* PremonitionMatcher.cleanupExpiredPremonitions, for the entries still to visit
RECURSIVE CleanupExpired(_, _)
CleanupExpired(w, ids) ==
  IF ids = <<>> THEN w
  ELSE LET pm == w.premonitionMatcher
           id == Head(ids)
           w1 == IF pm.turnCounter > Get(pm.activePremonitions, id).expiresAtTurn
                 THEN Emit([w EXCEPT !.premonitionMatcher.activePremonitions =
                                       Delete(pm.activePremonitions, id),
                                     !.expiryCount =
                                       MapSet(w.expiryCount, id,
                                              IF id \in DOMAIN w.expiryCount
                                              THEN w.expiryCount[id] + 1 ELSE 1)],
                           Event("premonitionExpired", id, Undefined))
                 ELSE w
       IN  CleanupExpired(w1, Tail(ids))

CleanupExpiredPremonitions(w) ==
  CleanupExpired(w, w.premonitionMatcher.activePremonitions.keys)

\* a processFracture that counts the turn twice
AdvanceTurnTwice(w) == [w EXCEPT !.premonitionMatcher.turnCounter = @ + 2]

\* this.turnCounter++
AdvanceTurn(w) == [w EXCEPT !.premonitionMatcher.turnCounter = @ + 1]

\* PremonitionMatcher.processFracture
MatcherProcessFracture(w, fracture) ==
  LET w1 == AdvanceTurn(w)
      premonitionStates == SortByStrength(Values(w1.premonitionMatcher.activePremonitions))
      w2 == MatchStates(w1, [i \in 1..Len(premonitionStates) |->
                               premonitionStates[i].premonition.id],
                        fracture)
  IN  IF w2.thrown THEN w2 ELSE CleanupExpiredPremonitions(w2)

\* PremonitionMatcher.getActivePremonitions, as the ids
GetActivePremonitions(pm) ==
  LET states == SelectSeq(Values(pm.activePremonitions),
                          LAMBDA st : ~st.isBound /\ pm.turnCounter <= st.expiresAtTurn)
  IN  [i \in 1..Len(states) |-> states[i].premonition.id]

\* PremonitionMatcher.getBoundPremonitions, as the ids
GetBoundPremonitions(pm) ==
  LET states == SelectSeq(Values(pm.activePremonitions), LAMBDA st : st.isBound)
  IN  [i \in 1..Len(states) |-> states[i].premonition.id]

\* PremonitionMatcher.resetTurnCounter
ResetTurnCounter(w) == [w EXCEPT !.premonitionMatcher.turnCounter = 0]

\* PremonitionMatcher.clearActivePremonitions
ClearActivePremonitions(w) == [w EXCEPT !.premonitionMatcher.activePremonitions = NewMap]

(***************************************************************************)
(* McTavish: the listeners it registers on the collapse engine.            *)
(***************************************************************************)
\* McTavish.handleRecursionFold
HandleRecursionFold(w, fold) ==
  LET placeholderFracture ==
        [id |-> fold.fractureEventId, content |-> <<"P", "l", "a", "c", "e", "h", "o", "l", "d", "e", "r", " ", "f", "r", "a", "c", "t", "u", "r", "e">>,
         timestamp |-> now - 1000, source |-> "system", metadata |-> NoMeta]
      g1 == IF fold.fractureEventId # Undefined
               /\ ~HasNode(w.memoryGraph, fold.fractureEventId)
            THEN AddFracture(w.memoryGraph, placeholderFracture)
            ELSE w.memoryGraph
      added == AddFold(g1, fold)
  IN  IF added.ok THEN [w EXCEPT !.memoryGraph = added.g]
      ELSE Throw([w EXCEPT !.memoryGraph = added.g])

\* McTavish.handlePremonition
HandlePremonition(w, premonition) ==
  MatcherAddPremonition([w EXCEPT !.memoryGraph =
                                    AddPremonition(w.memoryGraph, premonition)],
                        premonition)

(***************************************************************************)
(* CollapseEngine.                                                         *)
(***************************************************************************)
NewCollapseEngine ==
  [activeFractures |-> NewMap, pendingFolds |-> NewMap, pendingPremonitions |-> NewMap]

\* the emotions selectDominantEmotion chooses from
Emotions == <<"joy", "sadness", "anger", "fear", "surprise", "disgust">>

\* CollapseEngine.selectDominantEmotion, for the number Math.random() returned
SelectDominantEmotion(random) ==
  Emotions[Floor(RMul(random, <<Len(Emotions), 1>>)) + 1]

\* a tension below every default threshold
CalculateTensionHalved(character, fracture) == <<1, 2>>

\* CollapseEngine.calculateTension
CalculateTension(character, fracture) == RAdd(RAdd(<<1, 2>>, <<3, 10>>), <<1, 5>>)

\* CollapseEngine.getPremontionProbability
GetPremontionProbability(character) == <<1, 5>>

\* the emotional state generateRecursionFold and generatePremonition build:
\* three calls of Math.random()
RandomEmotionalState(w) ==
  [dominant |-> SelectDominantEmotion(Random(w)),
   intensity |-> Random(DrawRandom(w)),
   stability |-> Random(DrawRandom(DrawRandom(w)))]

\* CollapseEngine.generateRecursionFold
GenerateRecursionFold(w, character, fracture) ==
  LET emotionalState == RandomEmotionalState(w)
      w1 == DrawRandom(DrawRandom(DrawRandom(w)))
      fold == [id |-> NextUuid(w1),
               content |-> <<"R", "e", "s", "p", "o", "n", "s", "e", " ", "f", "r", "o", "m", " ">> \o character.name
                           \o <<" ", "t", "o", " ", "\"">> \o fracture.content \o <<"\"">>,
               timestamp |-> now, characterId |-> character.id,
               fractureEventId |-> fracture.id, emotionalState |-> emotionalState,
               metadata |-> NoMeta]
      w2 == [DrawUuid(w1) EXCEPT
               !.collapseEngine.pendingFolds = Set(@, fold.id, fold)]
      w3 == Notify(HandleRecursionFold(
                     Emit(Step(w2, "recursionFold", character.id, RZero),
                          Event("recursionFold", fold.id, fracture.id)),
                     fold),
                   "recursionFold")
  IN  IF w3.thrown THEN w3
      ELSE [Step(w3, "applyMutation", character.id, RZero)
              EXCEPT !.characterKernel =
                       ApplyMutation(w3.characterKernel, character.id, fold)]

\* the binding criteria generatePremonition gives
GeneratedBindingCriteria ==
  [contentSimilarity |-> <<7, 10>>, emotionalAlignment |-> <<3, 5>>,
   keywords |-> <<<<"e", "x", "a", "m", "p", "l", "e">>, <<"k", "e", "y", "w", "o", "r", "d">>>>]

\* CollapseEngine.generatePremonition
GeneratePremonition(w, character) ==
  LET emotionalState == RandomEmotionalState(w)
      w1 == DrawRandom(DrawRandom(DrawRandom(w)))
      premonition ==
        [id |-> NextUuid(w1),
         content |-> <<"P", "r", "e", "m", "o", "n", "i", "t", "i", "o", "n", " ", "f", "r", "o", "m", " ">> \o character.name
                     \o <<":", " ", "\"", "S", "o", "m", "e", "t", "h", "i", "n", "g", " ", "i", "s", " ", "a", "b", "o", "u", "t", " ", "t", "o", " ", "h", "a", "p", "p", "e", "n", ".", ".", ".", "\"">>,
         timestamp |-> now, characterId |-> character.id,
         fractureEventId |-> Undefined, emotionalState |-> emotionalState,
         metadata |-> NoMeta,
         validityWindow |-> config.premonitionValidityWindow,
         bindingCriteria |-> GeneratedBindingCriteria]
      w2 == [DrawUuid(w1) EXCEPT
               !.collapseEngine.pendingPremonitions = Set(@, premonition.id, premonition)]
  IN  Notify(HandlePremonition(Emit(Step(w2, "premonition", character.id, RZero),
                                    Event("premonition", premonition.id, Undefined)),
                               premonition),
             "premonition")

\* the body of characters.forEach in processFracture, for the characters still
\* to visit; a character is the object the kernel's Map holds
RECURSIVE EvaluateCharacters(_, _, _)
EvaluateCharacters(w, ids, fracture) ==
  IF ids = <<>> \/ w.thrown THEN w
  ELSE LET character == Get(w.characterKernel.characters, Head(ids))
           tensionLevel == CalculateTension(character, fracture)
           w0 == Step(w, "evaluate", character.id, character.collapseThreshold)
           w1 == IF RLe(character.collapseThreshold, tensionLevel)
                 THEN GenerateRecursionFold(w0, character, fracture)
                 ELSE w0
           w2 == IF w1.thrown THEN w1
                 ELSE IF RLt(Random(w1), GetPremontionProbability(character))
                 THEN GeneratePremonition(DrawRandom(w1), character)
                 ELSE DrawRandom(w1)
       IN  EvaluateCharacters(w2, Tail(ids), fracture)

\* CollapseEngine.processFracture
EngineProcessFracture(w, fracture) ==
  EvaluateCharacters(
    [w EXCEPT !.collapseEngine.activeFractures = Set(@, fracture.id, fracture)],
    w.characterKernel.characters.keys, fracture)

\* bindPremonitionToFracture without the test that the fracture is active
BindPremonitionToFractureAnyFracture(w, premonitionId, fractureId) ==
  IF ~Has(w.collapseEngine.pendingPremonitions, premonitionId)
  THEN [w EXCEPT !.ret = "false"]
  ELSE LET premonition == Get(w.collapseEngine.pendingPremonitions, premonitionId)
           boundFold == [premonition EXCEPT !.id = NextUuid(w),
                                            !.fractureEventId = fractureId]
           w1 == [DrawUuid(w) EXCEPT
                    !.collapseEngine.pendingPremonitions = Delete(@, premonitionId),
                    !.collapseEngine.pendingFolds = Set(@, boundFold.id, boundFold)]
       IN  [Emit(w1, Event("recursionFold", boundFold.id, fractureId))
              EXCEPT !.ret = "true"]

\* CollapseEngine.bindPremonitionToFracture
BindPremonitionToFracture(w, premonitionId, fractureId) ==
  IF ~Has(w.collapseEngine.pendingPremonitions, premonitionId)
     \/ ~Has(w.collapseEngine.activeFractures, fractureId)
  THEN [w EXCEPT !.ret = "false"]
  ELSE LET premonition == Get(w.collapseEngine.pendingPremonitions, premonitionId)
           boundFold == [premonition EXCEPT !.id = NextUuid(w),
                                            !.fractureEventId = fractureId]
           w1 == [DrawUuid(w) EXCEPT
                    !.collapseEngine.pendingPremonitions = Delete(@, premonitionId),
                    !.collapseEngine.pendingFolds = Set(@, boundFold.id, boundFold),
                    !.bindCount = MapSet(w.bindCount, premonitionId,
                                         IF premonitionId \in DOMAIN w.bindCount
                                         THEN w.bindCount[premonitionId] + 1 ELSE 1)]
           w2 == Notify(HandleRecursionFold(
                          Emit(w1, Event("recursionFold", boundFold.id, fractureId)),
                          boundFold),
                        "recursionFold")
       IN  IF w2.thrown THEN w2 ELSE [w2 EXCEPT !.ret = "true"]

\* CollapseEngine.clearPendingFold
ClearPendingFold(w, foldId) == [w EXCEPT !.collapseEngine.pendingFolds = Delete(@, foldId)]

\* CollapseEngine.clearPendingPremonition
ClearPendingPremonition(w, premonitionId) ==
  [w EXCEPT !.collapseEngine.pendingPremonitions = Delete(@, premonitionId)]

\* CollapseEngine.createFracture, with the id uuidv4() returned
CreateFracture(id, content, source) ==
  [id |-> id, content |-> content, timestamp |-> now, source |-> source,
   metadata |-> NoMeta]

\* McTavish.introduceFracture
IntroduceFracture(w, content, source) ==
  LET fracture == CreateFracture(NextUuid(w), content, source)
      w1 == [DrawUuid(w) EXCEPT !.memoryGraph = AddFracture(w.memoryGraph, fracture)]
  IN  EngineProcessFracture(w1, fracture)

(***************************************************************************)
(* Inputs.                                                                 *)
(***************************************************************************)
\* the contents of the fractures and folds a caller submits
TextRedSky == <<"r", "e", "d", " ", "s", "k", "y">>
TextRedSkyLoud == <<"R", "e", "d", " ", " ", "S", "K", "Y", " ">>
TextRed == <<"r", "e", "d">>
TextRedSkyMoon == <<"r", "e", "d", " ", "s", "k", "y", " ", "m", "o", "o", "n">>
TextExampleKeyword == <<"e", "x", "a", "m", "p", "l", "e", " ", "k", "e", "y", "w", "o", "r", "d">>
Contents == {TextRedSky, TextRedSkyLoud, TextRed, TextRedSkyMoon}

\* the contents of the fractures a caller introduces through McTavish
IntroducedContents == {TextExampleKeyword}

\* the names of the characters a caller creates
Names == {<<"E", "l", "e", "n", "a">>}

\* the validity windows a caller gives
Windows == 0..MaxWindow

\* the binding criteria a caller gives
CriteriaInputs ==
  {[contentSimilarity |-> ROne, emotionalAlignment |-> ROne, keywords |-> <<>>],
   [contentSimilarity |-> <<1, 10>>, emotionalAlignment |-> <<1, 10>>,
    keywords |-> <<<<"s", "k", "y">>>>]}

\* the premonitions a caller registers: the first with any window and criteria,
\* the second with the shortest window and the weak criteria
PremonitionInputs ==
  {p \in {[id |-> id, content |-> TextRedSky, timestamp |-> now,
           characterId |-> Undefined, fractureEventId |-> Undefined,
           emotionalState |-> [dominant |-> "surprise", intensity |-> <<4, 5>>,
                               stability |-> <<2, 5>>],
           metadata |-> NoMeta, validityWindow |-> window,
           bindingCriteria |-> criteria] :
            id \in PremonitionIds, window \in Windows, criteria \in CriteriaInputs} :
     p.id = 31 \/ (p.validityWindow = 0 /\ Len(p.bindingCriteria.keywords) > 0)}

\* the fractures a caller builds itself
FractureInputs ==
  {[id |-> id, content |-> content, timestamp |-> now, source |-> "user",
    metadata |-> NoMeta] : id \in FractureIds, content \in Contents}

\* a fracture the store has never seen
UnknownFracture ==
  [id |-> 19, content |-> TextRedSky, timestamp |-> now, source |-> "user",
   metadata |-> NoMeta]

\* the fracture a caller reads back from a fracture node of the store
FractureOfNode(node) ==
  [id |-> node.id, content |-> node.content, timestamp |-> node.timestamp,
   source |-> "user", metadata |-> NoMeta]

StoredFractures ==
  {FractureOfNode(Get(memoryGraph.nodes, id)) :
     id \in {k \in DOMAIN memoryGraph.nodes.at :
               Get(memoryGraph.nodes, k).type = "fracture"}}

\* the contents of the folds and of the fractures the binding logic is given:
\* their similarities are 1, 2/3, 1/2 and 1/3
FoldContents == {TextRedSky, TextRed}
BindingFractureContents == {TextRedSkyLoud, TextRedSkyMoon}

\* the folds a caller builds itself: with or without the fracture it answers,
\* and, when it names one, with or without a copy of that id in its metadata
FoldInputs ==
  {fold \in {[id |-> id, content |-> content, timestamp |-> now,
              characterId |-> Undefined, fractureEventId |-> fractureEventId,
              emotionalState |-> [dominant |-> "sadness", intensity |-> <<7, 10>>,
                                  stability |-> <<4, 5>>],
              metadata |-> metadata] :
               id \in FoldIds, content \in FoldContents,
               fractureEventId \in FractureIds \cup {Undefined},
               metadata \in {NoMeta} \cup {[fractureEventId |-> f] : f \in FractureIds}} :
     /\ fold.metadata = NoMeta \/ fold.metadata.fractureEventId = fold.fractureEventId
     /\ fold.id = 21 \/ (fold.content = TextRedSky /\ fold.fractureEventId # 12)}

\* the fractures the binding logic is given
BindingFractureInputs ==
  {f \in FractureInputs : /\ f.content \in BindingFractureContents
                          /\ f.id = 11 \/ f.content = TextRedSkyMoon}

\* the premonition a caller stores in the graph itself
StoredPremonitionInput ==
  CHOOSE p \in PremonitionInputs :
    p.id = 31 /\ p.validityWindow = MaxWindow /\ p.bindingCriteria.keywords = <<>>

\* the numbers Math.random() returns during one operation, in order, over again
RandomStreams ==
  {<<RZero, <<1, 2>>, <<1, 2>>, <<1, 2>>>>,
   <<<<1, 2>>, <<4, 5>>, <<4, 5>>, <<1, 10>>, RZero, <<1, 2>>, <<1, 2>>>>}

\* the collapse thresholds a caller gives a character
CollapseThresholdInputs == {NoNumber, <<6, 5>>}

\* no random number is drawn
NoRandom == <<>>

\* the configurations McTavish is built with: the defaults, with the validity
\* window of generated premonitions chosen by the caller
Configs ==
  {[defaultCollapseThreshold |-> <<7, 10>>, premonitionValidityWindow |-> window,
    mutationRate |-> <<1, 20>>, emotionalMemoryWeight |-> <<3, 5>>,
    contradictionTolerance |-> <<3, 10>>] : window \in 1..MaxWindow}

(***************************************************************************)
(* The initial state: new McTavish(config).                                *)
(***************************************************************************)
InitOf(configs) ==
  /\ config \in configs
  /\ memoryGraph = NewMemoryGraph
  /\ characterKernel = NewCharacterKernel
  /\ collapseEngine = NewCollapseEngine
  /\ premonitionMatcher = NewPremonitionMatcher
  /\ interactionBinding = NewInteractionBinding
  /\ uuidCount = 0
  /\ now = 0
  /\ emitted = <<>>
  /\ lastOp = [op |-> "new", a |-> Undefined, b |-> Undefined, ret |-> "void"]
  /\ matcherCalls = 0
  /\ registeredAt = EmptyMap
  /\ expiryCount = EmptyMap
  /\ bindCount = EmptyMap
  /\ bindingCalls = 0
  /\ calls = <<>>

Init == InitOf(Configs)

\* the state after an operation that ends in world w, while uuidv4() has
\* handed out at most maxUuid ids
CommitWithin(w, op, a, b, maxUuid) ==
  /\ w.uuidCount <= maxUuid
  /\ memoryGraph' = w.memoryGraph
  /\ characterKernel' = w.characterKernel
  /\ collapseEngine' = w.collapseEngine
  /\ premonitionMatcher' = w.premonitionMatcher
  /\ interactionBinding' = w.interactionBinding
  /\ uuidCount' = w.uuidCount
  /\ emitted' = w.emitted
  /\ lastOp' = [op |-> op, a |-> a, b |-> b,
                ret |-> IF w.thrown THEN "throws" ELSE w.ret]
  /\ registeredAt' = w.registeredAt
  /\ expiryCount' = w.expiryCount
  /\ bindCount' = w.bindCount
  /\ calls' = w.calls
  /\ UNCHANGED <<config, now>>

Commit(w, op, a, b) == CommitWithin(w, op, a, b, MaxUuid)

(***************************************************************************)
(* The operations a caller invokes.                                        *)
(***************************************************************************)
\* characterKernel.createCharacter(name, undefined, undefined, collapseThreshold)
DoCreateCharacter ==
  /\ Size(characterKernel.characters) < MaxCharacters
  /\ \E name \in Names, collapseThreshold \in CollapseThresholdInputs :
       Commit(CreateCharacter(World(NoRandom), name, NoMeta, NoMeta, collapseThreshold),
              "createCharacter", Undefined, Undefined)
  /\ UNCHANGED <<matcherCalls, bindingCalls>>

\* mctavish.introduceFracture(content)
DoIntroduceFracture ==
  /\ \E content \in IntroducedContents, random \in RandomStreams :
       Commit(IntroduceFracture(World(random), content, "user"),
              "introduceFracture", UuidOf(uuidCount + 1), Undefined)
  /\ UNCHANGED <<matcherCalls, bindingCalls>>

\* premonitionMatcher.addPremonition(premonition), with an id not used before (ids
\* are uuids)
DoAddPremonition ==
  /\ \E premonition \in {p \in PremonitionInputs : p.id \notin DOMAIN registeredAt} :
       Commit(MatcherAddPremonition(World(NoRandom), premonition),
              "addPremonition", premonition.id, Undefined)
  /\ UNCHANGED <<matcherCalls, bindingCalls>>

\* premonitionMatcher.processFracture(fracture)
DoMatcherProcessFracture ==
  /\ matcherCalls < MaxCalls
  /\ \E fracture \in StoredFractures \cup {UnknownFracture} :
       Commit(MatcherProcessFracture(World(NoRandom), fracture),
              "matcher.processFracture", fracture.id, Undefined)
  /\ matcherCalls' = matcherCalls + 1
  /\ UNCHANGED bindingCalls

\* premonitionMatcher.resetTurnCounter()
DoResetTurnCounter ==
  /\ Commit(ResetTurnCounter(World(NoRandom)), "resetTurnCounter", Undefined, Undefined)
  /\ UNCHANGED <<matcherCalls, bindingCalls>>

\* premonitionMatcher.clearActivePremonitions()
DoClearActivePremonitions ==
  /\ Commit(ClearActivePremonitions(World(NoRandom)), "clearActivePremonitions",
            Undefined, Undefined)
  /\ UNCHANGED <<matcherCalls, bindingCalls>>

\* the ids of premonitions a caller has seen
KnownPremonitionIds == {31} \cup DOMAIN registeredAt

\* the ids of fractures a caller has seen
KnownFractureIds ==
  {UnknownFracture.id} \cup {k \in DOMAIN memoryGraph.nodes.at :
                      Get(memoryGraph.nodes, k).type = "fracture"}

\* collapseEngine.bindPremonitionToFracture(premonitionId, fractureId)
DoBindPremonitionToFracture ==
  /\ \E premonitionId \in KnownPremonitionIds, fractureId \in KnownFractureIds :
       Commit(BindPremonitionToFracture(World(NoRandom), premonitionId, fractureId),
              "bindPremonitionToFracture", premonitionId, fractureId)
  /\ UNCHANGED <<matcherCalls, bindingCalls>>

\* collapseEngine.clearPendingPremonition(premonitionId)
DoClearPendingPremonition ==
  /\ \E premonitionId \in KnownPremonitionIds :
       Commit(ClearPendingPremonition(World(NoRandom), premonitionId),
              "clearPendingPremonition", premonitionId, Undefined)
  /\ UNCHANGED <<matcherCalls, bindingCalls>>

\* memoryGraph.addFracture(fracture)
DoAddFracture ==
  /\ \E fracture \in {f \in FractureInputs : f.id = 11 /\ f.content = TextRedSkyMoon} :
       Commit([World(NoRandom) EXCEPT !.memoryGraph = AddFracture(@, fracture)],
              "addFracture", fracture.id, Undefined)
  /\ UNCHANGED <<matcherCalls, bindingCalls>>

\* interactionBinding.processFracture(fracture)
DoBindingProcessFracture ==
  /\ bindingCalls < MaxBindingCalls
  /\ \E fracture \in BindingFractureInputs :
       Commit(BindingProcessFracture(World(NoRandom), fracture),
              "binding.processFracture", fracture.id, Undefined)
  /\ bindingCalls' = bindingCalls + 1
  /\ UNCHANGED matcherCalls

\* interactionBinding.processFold(fold)
DoProcessFold ==
  /\ bindingCalls < MaxBindingCalls
  /\ \E fold \in FoldInputs :
       Commit(ProcessFold(World(NoRandom), fold),
              "processFold", fold.id, fold.fractureEventId)
  /\ bindingCalls' = bindingCalls + 1
  /\ UNCHANGED matcherCalls

\* mctavish.selectResponse(foldId), which is interactionBinding.selectResponse
DoSelectResponse ==
  /\ bindingCalls < MaxBindingCalls
  /\ \E foldId \in FoldIds :
       Commit(SelectResponse(World(NoRandom), foldId),
              "selectResponse", foldId, Undefined)
  /\ bindingCalls' = bindingCalls + 1
  /\ UNCHANGED matcherCalls

\* memoryGraph.addPremonition(premonition)
DoStorePremonition ==
  /\ bindingCalls < MaxBindingCalls
  /\ Commit([World(NoRandom) EXCEPT
               !.memoryGraph = AddPremonition(@, StoredPremonitionInput)],
            "addPremonitionNode", StoredPremonitionInput.id, Undefined)
  /\ bindingCalls' = bindingCalls + 1
  /\ UNCHANGED matcherCalls

\* interactionBinding.processBoundInteraction({premonitionId, fractureId})
DoProcessBoundInteraction ==
  /\ bindingCalls < MaxBindingCalls
  /\ \E fractureId \in FractureIds :
       Commit(ProcessBoundInteraction(
                World(NoRandom),
                [premonitionId |-> StoredPremonitionInput.id, fractureId |-> fractureId,
                 timestamp |-> now, matchScore |-> ROne]),
              "processBoundInteraction", StoredPremonitionInput.id, fractureId)
  /\ bindingCalls' = bindingCalls + 1
  /\ UNCHANGED matcherCalls

\* the premonition matcher on its own, over a store the caller fills
NextMatcher ==
  \/ DoAddFracture
  \/ DoAddPremonition
  \/ DoMatcherProcessFracture
  \/ DoResetTurnCounter
  \/ DoClearActivePremonitions

SpecMatcher == Init /\ [][NextMatcher]_vars

\* the echo lifecycle in the assembled system: McTavish's entry point, the
\* collapse engine and the premonition matcher
NextEcho ==
  \/ DoCreateCharacter
  \/ DoIntroduceFracture
  \/ DoMatcherProcessFracture
  \/ DoBindPremonitionToFracture
  \/ DoClearPendingPremonition

SpecEcho == Init /\ [][NextEcho]_vars

\* the collapse engine behind the entry point, without the matcher
NextEngine ==
  \/ DoCreateCharacter
  \/ DoIntroduceFracture
  \/ DoBindPremonitionToFracture
  \/ DoClearPendingPremonition

SpecEngine == Init /\ [][NextEngine]_vars

\* the binding logic on its own: fractures, folds and the selection of a fold
NextBinding ==
  \/ DoBindingProcessFracture
  \/ DoProcessFold
  \/ DoSelectResponse
  \/ DoStorePremonition
  \/ DoProcessBoundInteraction

SpecBinding == Init /\ [][NextBinding]_vars

(***************************************************************************)
(* What the observers count.                                               *)
(***************************************************************************)
\* the number of times an id was counted in one of the counting maps
CountOf(counts, id) == IF id \in DOMAIN counts THEN counts[id] ELSE 0

\* the last turn at which a registered premonition may still bind: T + W
LastValidTurn(id) == registeredAt[id].turn + registeredAt[id].window

(***************************************************************************)
(* The turn counter.                                                       *)
(***************************************************************************)
\* C3, as the specification states it: after any sequence of operations the
\* turn counter equals the number of processFracture calls made so far on the
\* premonition matcher.
TurnCounterCountsCalls == premonitionMatcher.turnCounter = matcherCalls

\* C3, amended: the turn counter starts at 0, every processFracture call of the
\* premonition matcher increases it by exactly 1, resetTurnCounter sets it back
\* to 0, and no other operation changes it.
TurnCounterSteps ==
  /\ premonitionMatcher.turnCounter = 0
  /\ [][IF lastOp'.op = "matcher.processFracture"
        THEN premonitionMatcher'.turnCounter = premonitionMatcher.turnCounter + 1
        ELSE IF lastOp'.op = "resetTurnCounter"
        THEN premonitionMatcher'.turnCounter = 0
        ELSE premonitionMatcher'.turnCounter = premonitionMatcher.turnCounter]_vars

\* a processFracture call made after the counter was reset: the counter has
\* advanced to less than the number of calls
TurnAdvancedAfterReset ==
  /\ lastOp.op = "matcher.processFracture"
  /\ premonitionMatcher.turnCounter > 0
  /\ premonitionMatcher.turnCounter < matcherCalls

(***************************************************************************)
(* Expiry.                                                                 *)
(***************************************************************************)
\* C2: a registered premonition still held by the matcher is expired by the
\* processFracture call during which the turn counter first exceeds T + W: that
\* call emits one premonitionExpired for it and drops it from the active
\* premonitions; no other step emits a premonitionExpired for it, and it is
\* never expired twice.
ExpiredWhenWindowFirstExceeded ==
  [][\A id \in DOMAIN registeredAt :
       LET crossing == /\ premonitionMatcher.turnCounter <= LastValidTurn(id)
                       /\ premonitionMatcher'.turnCounter > LastValidTurn(id)
       IN  /\ (Has(premonitionMatcher.activePremonitions, id) /\ crossing)
                => /\ CountOf(expiryCount', id) = CountOf(expiryCount, id) + 1
                   /\ ~Has(premonitionMatcher'.activePremonitions, id)
           /\ CountOf(expiryCount', id) # CountOf(expiryCount, id)
                => crossing /\ lastOp'.op = "matcher.processFracture"
           /\ CountOf(expiryCount', id) <= 1]_vars

(***************************************************************************)
(* The echo lifecycle in the assembled system.                             *)
(***************************************************************************)
\* C1: a premonition registered at turn T with validity window W is bound by no
\* operation (the matcher's processFracture, the engine's
\* bindPremonitionToFracture) once the turn counter is greater than T + W.
NeverBoundAfterValidityWindow ==
  [][\A id \in DOMAIN registeredAt :
       CountOf(bindCount', id) > CountOf(bindCount, id)
         => premonitionMatcher'.turnCounter <= LastValidTurn(id)]_vars

\* C4: every McTavish.introduceFracture advances the turn counter by exactly one
\* and has the matcher attempt every premonition that is neither bound nor
\* expired, so that W + 1 submissions expire a premonition of window W.
SubmissionAdvancesTurn ==
  [][lastOp'.op = "introduceFracture"
       => /\ premonitionMatcher'.turnCounter = premonitionMatcher.turnCounter + 1
          /\ \A id \in DOMAIN premonitionMatcher.activePremonitions.at :
               LET state == Get(premonitionMatcher.activePremonitions, id)
               IN  IF premonitionMatcher'.turnCounter > state.expiresAtTurn
                   THEN ~Has(premonitionMatcher'.activePremonitions, id)
                   ELSE state.isBound
                        \/ Get(premonitionMatcher'.activePremonitions, id).bindingAttempts
                             = state.bindingAttempts + 1]_vars

\* C10: when bindPremonitionToFracture(e, s) has returned true, e is pending
\* nowhere: the engine no longer holds it, the matcher's getActivePremonitions()
\* does not contain it, and it has been bound once.
BoundEchoPendingNowhere ==
  (lastOp.op = "bindPremonitionToFracture" /\ lastOp.ret = "true")
    => /\ ~Has(collapseEngine.pendingPremonitions, lastOp.a)
       /\ ~SeqIncludes(GetActivePremonitions(premonitionMatcher), lastOp.a)
       /\ CountOf(bindCount, lastOp.a) = 1

(***************************************************************************)
(* Binding folds to fractures.                                             *)
(***************************************************************************)
\* the Jaccard index of the lower-cased, whitespace-separated words of two texts
TokenOverlap(text1, text2) ==
  LET words1 == SetOf(SplitWhitespace(Trim(ToLowerCase(text1))))
      words2 == SetOf(SplitWhitespace(Trim(ToLowerCase(text2))))
  IN  Rat(Cardinality(words1 \cap words2), Cardinality(words1 \cup words2))

\* the fold nodes of a store that carry no fracture id
FoldsWithoutFracture(g) ==
  {id \in DOMAIN g.nodes.at : /\ Get(g.nodes, id).type = "fold"
                              /\ LacksFractureEventId(Get(g.nodes, id))}

\* the binding records that list a fold
RecordsListing(ib, foldId) ==
  {s \in DOMAIN ib.pendingBindings.at :
     SeqIncludes(Get(ib.pendingBindings, s).boundFoldIds, foldId)}

\* the fold was stored by processFold naming the fracture: addFold's edge
\* fracture -> fold is in the store and the fracture's record lists the fold
BoundThroughProcessFold(fractureId, foldId) ==
  /\ Has(memoryGraph.edges, <<fractureId, foldId, "causality">>)
  /\ RecordsListing(interactionBinding, foldId) = {fractureId}

\* C5: when interactionBinding.processFracture(s) has returned, the bound folds
\* of s's binding record contain every stored fold without a fracture whose
\* similarity to s exceeds 1/2, which that call bound to s.
DeferredFoldsListedForFracture ==
  [][(lastOp'.op = "binding.processFracture" /\ lastOp'.ret # "throws")
       => \A r \in FoldsWithoutFracture(memoryGraph) :
            RLt(<<1, 2>>, TokenOverlap(Get(memoryGraph.nodes, r).content,
                                       Get(memoryGraph'.nodes, lastOp'.a).content))
              => SeqIncludes(GetResponsesForFracture(interactionBinding', lastOp'.a),
                             r)]_vars

\* C6: when a fracture s is processed while the store holds a fold r that
\* carries no fracture id, and the Jaccard overlap of their contents is greater
\* than 1/2, the store afterwards holds the causality edge r -> s, weighted by
\* that overlap and tagged deferred; when the overlap is 1/2 or less the call
\* creates no edge r -> s.
DeferredFoldBoundBySimilarity ==
  [][(lastOp'.op = "binding.processFracture" /\ lastOp'.ret # "throws")
       => \A r \in FoldsWithoutFracture(memoryGraph) :
            LET s == lastOp'.a
                overlap == TokenOverlap(Get(memoryGraph.nodes, r).content,
                                        Get(memoryGraph'.nodes, s).content)
                key == <<r, s, "causality">>
            IN  IF RLt(<<1, 2>>, overlap)
                THEN /\ Has(memoryGraph'.edges, key)
                     /\ Get(memoryGraph'.edges, key).source = r
                     /\ Get(memoryGraph'.edges, key).target = s
                     /\ Get(memoryGraph'.edges, key).weight = overlap
                     /\ Get(memoryGraph'.edges, key).metadata.bindingType = "deferred"
                     /\ GetEdgesBetween(memoryGraph', r, s)
                          = <<Get(memoryGraph'.edges, key)>>
                ELSE /\ Has(memoryGraph'.edges, key) <=> Has(memoryGraph.edges, key)
                     /\ GetEdgesBetween(memoryGraph', r, s)
                          = GetEdgesBetween(memoryGraph, r, s)]_vars

\* a fracture has just been processed and a fold that was stored without a
\* fracture (no edge leads to it) is bound to it by a deferred edge of weight 2/3
DeferredEdgeCreated ==
  /\ lastOp.op = "binding.processFracture"
  /\ \E r \in FoldIds :
       /\ Has(memoryGraph.edges, <<r, lastOp.a, "causality">>)
       /\ Get(memoryGraph.edges, <<r, lastOp.a, "causality">>).weight = <<2, 3>>
       /\ Get(memoryGraph.edges, <<r, lastOp.a, "causality">>).metadata.bindingType
            = "deferred"
       /\ \A f \in FractureIds : ~Has(memoryGraph.edges, <<f, r, "causality">>)

\* C7: when two folds r1 and r2 were bound to the same fracture s through
\* processFold, selectResponse(r1) marks the binding record of s resolved,
\* changes the status of no other record and leaves r2 in the bound folds of s.
SelectResolvesOnlyOwningRecord ==
  [][lastOp'.op = "selectResponse"
       => \A s \in FractureIds, r2 \in FoldIds \ {lastOp'.a} :
            (BoundThroughProcessFold(s, lastOp'.a) /\ BoundThroughProcessFold(s, r2))
              => /\ Get(interactionBinding'.pendingBindings, s).status = "resolved"
                 /\ \A t \in DOMAIN interactionBinding.pendingBindings.at \ {s} :
                      Get(interactionBinding'.pendingBindings, t).status
                        = Get(interactionBinding.pendingBindings, t).status
                 /\ SeqIncludes(GetResponsesForFracture(interactionBinding', s), r2)]_vars

\* C8: for a fold r stored by processFold naming a fracture s that has a binding
\* record, selectResponse(r) sets that record to resolved with r selected, and
\* the store then holds the causality edge s -> r of weight 1 with selected: true.
SelectRecordsChosenFold ==
  [][lastOp'.op = "selectResponse"
       => \A s \in FractureIds :
            BoundThroughProcessFold(s, lastOp'.a)
              => LET record == Get(interactionBinding'.pendingBindings, s)
                     key == <<s, lastOp'.a, "causality">>
                 IN  /\ record.status = "resolved"
                     /\ record.selectedFoldId = lastOp'.a
                     /\ GetSelectedResponse(interactionBinding', s) = lastOp'.a
                     /\ Has(memoryGraph'.edges, key)
                     /\ Get(memoryGraph'.edges, key).weight = ROne
                     /\ "selected" \in DOMAIN Get(memoryGraph'.edges, key).metadata
                     /\ Get(memoryGraph'.edges, key).metadata.selected = TRUE]_vars

\* C9: there is one binding record per fracture id, and a fold naming a
\* fracture s, or a stored premonition bound to s, that is processed while s has
\* no record leaves a pending record for s that lists it.
RecordCreatedOnFirstReference ==
  [][/\ Cardinality(SetOf(interactionBinding'.pendingBindings.keys))
          = Len(interactionBinding'.pendingBindings.keys)
     /\ ( /\ \/ lastOp'.op = "processFold" /\ lastOp'.b # Undefined
             \/ /\ lastOp'.op = "processBoundInteraction"
                /\ HasNode(memoryGraph, lastOp'.a)
          /\ ~Has(interactionBinding.pendingBindings, lastOp'.b) )
        => /\ Has(interactionBinding'.pendingBindings, lastOp'.b)
           /\ Get(interactionBinding'.pendingBindings, lastOp'.b).status = "pending"
           /\ SeqIncludes(GetResponsesForFracture(interactionBinding', lastOp'.b),
                          lastOp'.a)]_vars

(***************************************************************************)
(* The collapse engine's refusal to bind.                                  *)
(***************************************************************************)
\* C11: a call of bindPremonitionToFracture whose premonition id is not a
\* pending premonition, or whose fracture id is not an active fracture, returns
\* false, emits nothing, and leaves the engine's pending premonitions, pending
\* folds and active fractures, and everything else, as they were.
RefusedBindChangesNothing ==
  [][( /\ lastOp'.op = "bindPremonitionToFracture"
       /\ \/ ~Has(collapseEngine.pendingPremonitions, lastOp'.a)
          \/ ~Has(collapseEngine.activeFractures, lastOp'.b) )
       => /\ lastOp'.ret = "false"
          /\ emitted' = <<>>
          /\ collapseEngine' = collapseEngine
          /\ memoryGraph' = memoryGraph
          /\ premonitionMatcher' = premonitionMatcher
          /\ characterKernel' = characterKernel]_vars

\* a pending premonition was refused a fracture the engine has not seen, while
\* the engine holds active fractures
PendingEchoRefusedUnknownFracture ==
  /\ lastOp.op = "bindPremonitionToFracture"
  /\ lastOp.ret = "false"
  /\ Has(collapseEngine.pendingPremonitions, lastOp.a)
  /\ ~Has(collapseEngine.activeFractures, lastOp.b)
  /\ Size(collapseEngine.activeFractures) > 0

(***************************************************************************)
(* The memory graph store on its own.                                      *)
(***************************************************************************)
\* the store holds at most MaxNodes nodes before a fork
MaxNodes == 3

\* MemoryGraphStore.addEdge as its caller sees it: the edge id is returned, or
\* the error is thrown
AddEdgeCall(w, edge) ==
  LET added == AddEdge(w.memoryGraph, edge)
  IN  IF added.ok THEN [w EXCEPT !.memoryGraph = added.g, !.ret = "edgeId"]
      ELSE Throw(w)

\* MemoryGraphStore.forkAtNode as its caller sees it: the id of the forked node
\* is returned, or the error is thrown
ForkAtNodeCall(w, nodeId) ==
  IF ~HasNode(w.memoryGraph, nodeId) THEN Throw(w)
  ELSE [DrawUuid(w) EXCEPT
          !.memoryGraph = ForkAtNode(w.memoryGraph, nodeId, NextUuid(w)),
          !.ret = "forkedNodeId"]

\* the fractures a caller stores: one per id
StoreFractureInputs == {f \in FractureInputs : f.content = TextRedSky}

\* the edges a caller adds: from fracture 11 or an id the store has never seen,
\* to fracture 12 or an id the store has never seen; of two kinds; each kind
\* with two weights, the heavier one with an attribute
EdgeInputs ==
  {[source |-> source, target |-> target, type |-> type,
    weight |-> attributes.weight, metadata |-> attributes.metadata] :
     source \in {11, UnknownFracture.id}, target \in {12, UnknownFracture.id},
     type \in {"causality", "emotional"},
     attributes \in {[weight |-> <<1, 2>>, metadata |-> NoMeta],
                     [weight |-> ROne, metadata |-> [selected |-> TRUE]]}}

\* memoryGraph.addFracture(fracture), for either fracture id
DoStoreFracture ==
  /\ \E fracture \in StoreFractureInputs :
       Commit([World(NoRandom) EXCEPT !.memoryGraph = AddFracture(@, fracture)],
              "addFracture", fracture.id, Undefined)
  /\ UNCHANGED <<matcherCalls, bindingCalls>>

\* memoryGraph.addEdge(edge); lastOp.a is the edge given
DoAddEdge ==
  /\ \E edge \in EdgeInputs :
       Commit(AddEdgeCall(World(NoRandom), edge), "addEdge", edge, Undefined)
  /\ UNCHANGED <<matcherCalls, bindingCalls>>

\* memoryGraph.forkAtNode(nodeId), for a node of the store or an id it has never
\* seen; lastOp.b is the id returned
DoForkAtNode ==
  /\ Size(memoryGraph.nodes) < MaxNodes
  /\ \E nodeId \in SetOf(memoryGraph.nodes.keys) \cup {UnknownFracture.id} :
       LET w == ForkAtNodeCall(World(NoRandom), nodeId)
       IN  Commit(w, "forkAtNode", nodeId,
                  IF w.thrown THEN Undefined ELSE UuidOf(w.uuidCount))
  /\ UNCHANGED <<matcherCalls, bindingCalls>>

NextStore ==
  \/ DoStoreFracture
  \/ DoAddEdge
  \/ DoForkAtNode

SpecStore == Init /\ [][NextStore]_vars

(***************************************************************************)
(* Edges and forks of the store.                                           *)
(***************************************************************************)
\* the edge is missing an endpoint in store g
MissesEndpoint(g, edge) == ~HasNode(g, edge.source) \/ ~HasNode(g, edge.target)

\* C12: in any store state, addEdge of an edge whose source id or target id is
\* not a node of the store throws, and the nodes, the edges and the adjacency
\* structure of the store are afterwards what they were.
AddEdgeMissingEndpointThrows ==
  [][(lastOp'.op = "addEdge" /\ MissesEndpoint(memoryGraph, lastOp'.a))
       => /\ lastOp'.ret = "throws"
          /\ memoryGraph'.nodes = memoryGraph.nodes
          /\ memoryGraph'.edges = memoryGraph.edges
          /\ memoryGraph'.graph = memoryGraph.graph]_vars

\* addEdge has thrown for an edge from a stored node to an id the store has
\* never seen, in a store that holds edges
EdgeToUnknownTargetRefused ==
  /\ lastOp.op = "addEdge"
  /\ lastOp.ret = "throws"
  /\ HasNode(memoryGraph, lastOp.a.source)
  /\ ~HasNode(memoryGraph, lastOp.a.target)
  /\ Size(memoryGraph.edges) > 0

\* the edges of store g that run from source to target, whatever their kind
EdgesOfPair(g, source, target) ==
  {k \in DOMAIN g.edges.at : k[1] = source /\ k[2] = target}

ForkAddsOneNodeAndDivergence ==
  [][(lastOp'.op = "forkAtNode" /\ HasNode(memoryGraph, lastOp'.a))
       => LET n == lastOp'.a
              forked == lastOp'.b
              original == Get(memoryGraph.nodes, n)
              triple == <<n, forked, "divergence">>
          IN  /\ lastOp'.ret = "forkedNodeId"
              /\ ~HasNode(memoryGraph, forked)
              /\ memoryGraph'.nodes.keys = Append(memoryGraph.nodes.keys, forked)
              /\ \A k \in DOMAIN memoryGraph.nodes.at :
                   Get(memoryGraph'.nodes, k) = Get(memoryGraph.nodes, k)
              /\ Get(memoryGraph'.nodes, forked).id = forked
              /\ Get(memoryGraph'.nodes, forked).type = original.type
              /\ Get(memoryGraph'.nodes, forked).content = original.content
              /\ Get(memoryGraph'.nodes, forked).metadata
                   = Spread(original.metadata, [forkedFrom |-> n])
              /\ memoryGraph'.edges.keys = Append(memoryGraph.edges.keys, triple)
              /\ \A k \in DOMAIN memoryGraph.edges.at :
                   Get(memoryGraph'.edges, k) = Get(memoryGraph.edges, k)
              /\ EdgeId(Get(memoryGraph'.edges, triple)) = triple
              /\ DOMAIN memoryGraph'.graph.label
                   = (DOMAIN memoryGraph.graph.label) \cup {<<n, forked>>}
              /\ \A p \in DOMAIN memoryGraph.graph.label :
                   memoryGraph'.graph.label[p] = memoryGraph.graph.label[p]]_vars

\* a fracture has been forked in a store that holds another fracture and an
\* edge between the two
ForkBesideEdges ==
  /\ lastOp.op = "forkAtNode"
  /\ lastOp.ret = "forkedNodeId"
  /\ HasNode(memoryGraph, 12)
  /\ Get(memoryGraph.nodes, lastOp.b).metadata.forkedFrom = lastOp.a
  /\ Has(memoryGraph.edges, <<lastOp.a, lastOp.b, "divergence">>)
  /\ EdgesOfPair(memoryGraph, 11, 12) # {}

(***************************************************************************)
(* The character kernel on its own.                                        *)
(***************************************************************************)
\* a kernel is asked for at most MaxForks forks
MaxForks == 1

\* a character id the kernel has never given out
UnknownCharacter == 41

\* the tone profiles a caller gives createCharacter: none, or one whose whole
\* weight is on one emotion
ToneProfileInputs == {NoMeta, [variations |-> [joy |-> ROne]]}

\* the emotional states of the folds a character is mutated with: one whose
\* dominant emotion is an emotion of every tone profile, one whose dominant
\* emotion is the default baseline, which is an emotion of none
MutationStates ==
  {[dominant |-> "joy", intensity |-> ROne, stability |-> <<4, 5>>],
   [dominant |-> "neutral", intensity |-> <<1, 2>>, stability |-> <<2, 5>>]}

\* the folds applyMutation is given
MutationFolds ==
  {[id |-> 21, content |-> TextRedSky, timestamp |-> now, characterId |-> Undefined,
    fractureEventId |-> Undefined, emotionalState |-> emotionalState,
    metadata |-> NoMeta] : emotionalState \in MutationStates}

\* the emotional states reconfigureCharacter is given
ReconfigureStates ==
  {[dominant |-> "joy", intensity |-> ROne, stability |-> <<4, 5>>],
   [dominant |-> "sadness", intensity |-> <<1, 2>>, stability |-> <<2, 5>>]}

\* the threshold adjustments reconfigureCharacter is given; the first is the
\* default
ThresholdAdjustments == {RZero, <<1, 10>>}

\* the ids of characters a caller has seen, and one it has made up
KnownCharacterIds == SetOf(characterKernel.characters.keys) \cup {UnknownCharacter}

\* characterKernel.createCharacter(name, toneProfile)
DoCreateProfiledCharacter ==
  /\ Size(characterKernel.characters) < MaxCharacters
  /\ \E name \in Names, toneProfile \in ToneProfileInputs :
       Commit(CreateCharacter(World(NoRandom), name, toneProfile, NoMeta, NoNumber),
              "createCharacter", UuidOf(uuidCount + 2), Undefined)
  /\ UNCHANGED <<matcherCalls, bindingCalls>>

\* characterKernel.applyMutation(characterId, fold); lastOp.b is the fold's
\* emotional state
DoApplyMutation ==
  /\ \E characterId \in KnownCharacterIds, fold \in MutationFolds :
       Commit([World(NoRandom) EXCEPT
                 !.characterKernel = ApplyMutation(@, characterId, fold)],
              "applyMutation", characterId, fold.emotionalState)
  /\ UNCHANGED <<matcherCalls, bindingCalls>>

\* characterKernel.forkCharacter(characterId), with the default name modifier;
\* lastOp.b is the id returned
DoForkCharacter ==
  /\ Size(characterKernel.characters) < MaxCharacters + MaxForks
  /\ \E characterId \in KnownCharacterIds :
       LET w == ForkCharacter(World(NoRandom), characterId,
                              <<"v", "a", "r", "i", "a", "n", "t">>)
       IN  Commit(w, "forkCharacter", characterId,
                  IF w.thrown THEN Undefined ELSE UuidOf(w.uuidCount))
  /\ UNCHANGED <<matcherCalls, bindingCalls>>

\* characterKernel.reconfigureCharacter(characterId, emotionalState, adjustment);
\* lastOp.b is the emotional state
DoReconfigureCharacter ==
  /\ \E characterId \in KnownCharacterIds, emotionalState \in ReconfigureStates,
        adjustment \in ThresholdAdjustments :
       Commit([World(NoRandom) EXCEPT
                 !.characterKernel =
                   ReconfigureCharacter(@, characterId, emotionalState, adjustment)],
              "reconfigureCharacter", characterId, emotionalState)
  /\ UNCHANGED <<matcherCalls, bindingCalls>>

NextKernel ==
  \/ DoCreateProfiledCharacter
  \/ DoApplyMutation
  \/ DoForkCharacter
  \/ DoReconfigureCharacter

SpecKernel == Init /\ [][NextKernel]_vars

\* characters that are created and mutated, never forked or reconfigured
NextDrift ==
  \/ DoCreateProfiledCharacter
  \/ DoApplyMutation

SpecDrift == Init /\ [][NextDrift]_vars

(***************************************************************************)
(* Forks, tone distributions and stability of characters.                  *)
(***************************************************************************)
\* the weights of a character's tone distribution, as a reader of
\* character.toneProfile.variations finds them
ToneDistribution(ck, id) ==
  ck.variationsHeap[Get(ck.characters, id).toneProfile.variations]

\* what C15 speaks of: tone distribution, baseline tone, mutation rules,
\* emotional state and collapse threshold of a character
MutableProfile(ck, id) ==
  [toneDistribution |-> ToneDistribution(ck, id),
   baseline |-> Get(ck.characters, id).toneProfile.baseline,
   mutationSchema |-> Get(ck.characters, id).mutationSchema,
   emotionalState |-> Get(ck.emotionalStates, id),
   collapseThreshold |-> Get(ck.characters, id).collapseThreshold]

\* C15: a character and its fork share no mutable state: applyMutation or
\* reconfigureCharacter on one character leaves the tone distribution, baseline
\* tone, mutation rules, emotional state and collapse threshold of every other
\* character, its fork or its original among them, as they were.
ForkSharesNoMutableState ==
  [][lastOp'.op \in {"applyMutation", "reconfigureCharacter"}
       => \A other \in SetOf(characterKernel.characters.keys) \ {lastOp'.a} :
            MutableProfile(characterKernel', other)
              = MutableProfile(characterKernel, other)]_vars

\* the sum of all weights of a tone distribution
TotalWeight(variations) == SumWeights(variations, DOMAIN variations)

EveryToneDistributionSumsToOne ==
  \A id \in SetOf(characterKernel.characters.keys) :
    TotalWeight(ToneDistribution(characterKernel, id)) = ROne

\* C20: applyMutation on a character sets its emotional state's dominant
\* emotion to that of the fold and raises its stability to
\* min(1, previous stability + 0.1).
MutationRaisesStability ==
  [][(lastOp'.op = "applyMutation" /\ Has(characterKernel.characters, lastOp'.a))
       => LET before == Get(characterKernel.emotionalStates, lastOp'.a)
              after == Get(characterKernel'.emotionalStates, lastOp'.a)
          IN  /\ after.dominant = lastOp'.b.dominant
              /\ after.stability
                   = RMin(ROne, RAdd(before.stability, <<1, 10>>))]_vars

(***************************************************************************)
(* The binding threshold.                                                  *)
(***************************************************************************)
\* threshold >= 0.3, as JavaScript compares: false for NaN
AtLeastFloor(threshold) ==
  \/ threshold.kind = "Infinity"
  \/ threshold.kind = "number" /\ RLe(<<3, 10>>, threshold.value)

\* later > earlier, as JavaScript compares: false when either is NaN
Increases(earlier, later) ==
  /\ earlier.kind # "NaN" /\ later.kind # "NaN"
  /\ \/ earlier.kind = "number" /\ later.kind = "Infinity"
     \/ /\ earlier.kind = "number" /\ later.kind = "number"
        /\ RLt(earlier.value, later.value)

\* the premonition state is one processFracture evaluates the threshold of at
\* the given turn: not bound and not past its window
Evaluated(state, turn) == ~state.isBound /\ turn <= state.expiresAtTurn

\* C16: the threshold getBindingThreshold returns is at least 0.3 whenever
\* processFracture evaluates it, and for a premonition inside its validity
\* window it does not increase with one more binding attempt or one more turn.
ThresholdFloorAndDecay ==
  [][(lastOp'.op = "matcher.processFracture" /\ lastOp'.ret # "throws")
       => \A id \in DOMAIN premonitionMatcher.activePremonitions.at :
            LET state == Get(premonitionMatcher.activePremonitions, id)
                turn == premonitionMatcher.turnCounter + 1
                attempted == [state EXCEPT !.bindingAttempts = @ + 1]
                threshold == GetBindingThreshold(attempted, turn)
            IN  Evaluated(state, turn)
                  => /\ AtLeastFloor(threshold)
                     /\ ~Increases(threshold,
                                   GetBindingThreshold(
                                     [attempted EXCEPT !.bindingAttempts = @ + 1], turn))
                     /\ Evaluated(state, turn + 1)
                          => ~Increases(threshold,
                                        GetBindingThreshold(attempted, turn + 1))]_vars

\* what holds of the same evaluations for the premonitions whose validity
\* window is at least one turn
ThresholdFloorAndDecayOfPositiveWindows ==
  [][(lastOp'.op = "matcher.processFracture" /\ lastOp'.ret # "throws")
       => \A id \in DOMAIN premonitionMatcher.activePremonitions.at :
            LET state == Get(premonitionMatcher.activePremonitions, id)
                turn == premonitionMatcher.turnCounter + 1
                attempted == [state EXCEPT !.bindingAttempts = @ + 1]
                threshold == GetBindingThreshold(attempted, turn)
            IN  (Evaluated(state, turn) /\ state.premonition.validityWindow >= 1)
                  => /\ threshold.kind = "number"
                     /\ RLe(<<3, 10>>, threshold.value)
                     /\ RLe(GetBindingThreshold(
                              [attempted EXCEPT !.bindingAttempts = @ + 1], turn).value,
                            threshold.value)
                     /\ RLe(GetBindingThreshold(attempted, turn + 1).value,
                            threshold.value)]_vars

(***************************************************************************)
(* Scenario A: the premonition "you're about to ask about her" and the     *)
(* fracture "What happened to Elena?".                                     *)
(***************************************************************************)
TextAboutToAsk ==
  <<"y", "o", "u", "'", "r", "e", " ", "a", "b", "o", "u", "t", " ", "t", "o", " ",
    "a", "s", "k", " ", "a", "b", "o", "u", "t", " ", "h", "e", "r">>
TextWhatHappened ==
  <<"W", "h", "a", "t", " ", "h", "a", "p", "p", "e", "n", "e", "d", " ", "t", "o", " ",
    "E", "l", "e", "n", "a", "?">>

\* the validity window of the scenario's premonition
ScenarioWindow == 3

\* the premonition of the scenario, with the keywords the scenario names or
\* with those of the demo simulation; the weights are the demo's
ScenarioEchoInputs ==
  {[id |-> 31, content |-> TextAboutToAsk, timestamp |-> now,
    characterId |-> Undefined, fractureEventId |-> Undefined,
    emotionalState |-> [dominant |-> "curiosity", intensity |-> <<4, 5>>,
                        stability |-> <<2, 5>>],
    metadata |-> NoMeta, validityWindow |-> ScenarioWindow,
    bindingCriteria |-> [contentSimilarity |-> <<3, 5>>,
                         emotionalAlignment |-> <<1, 2>>, keywords |-> keywords]] :
     keywords \in {<<<<"e", "l", "e", "n", "a">>, <<"h", "e", "r">>>>,
                   <<<<"e", "l", "e", "n", "a">>, <<"h", "e", "r">>, <<"s", "h", "e">>,
                     <<"h", "a", "p", "p", "e", "n", "e", "d">>>>}}

\* the fracture of the scenario
ScenarioStimulus ==
  [id |-> 11, content |-> TextWhatHappened, timestamp |-> now, source |-> "user",
   metadata |-> NoMeta]

\* memoryGraph.addFracture(fracture), for the fracture of the scenario
DoStoreStimulus ==
  /\ Commit([World(NoRandom) EXCEPT !.memoryGraph = AddFracture(@, ScenarioStimulus)],
            "addFracture", ScenarioStimulus.id, Undefined)
  /\ UNCHANGED <<matcherCalls, bindingCalls>>

\* memoryGraph.addPremonition(premonition) and
\* premonitionMatcher.addPremonition(premonition), for the premonition of the
\* scenario, as emitAssistantPremonition does
DoRegisterEcho ==
  /\ \E premonition \in {p \in ScenarioEchoInputs : p.id \notin DOMAIN registeredAt} :
       Commit(MatcherAddPremonition(
                [World(NoRandom) EXCEPT !.memoryGraph = AddPremonition(@, premonition)],
                premonition),
              "addPremonition", premonition.id, Undefined)
  /\ UNCHANGED <<matcherCalls, bindingCalls>>

NextScenarioA ==
  \/ DoStoreStimulus
  \/ DoRegisterEcho
  \/ DoMatcherProcessFracture
  \/ DoResetTurnCounter

SpecScenarioA == Init /\ [][NextScenarioA]_vars

\* C17: when the premonition of the scenario, registered at turn 0, meets the
\* stored fracture of the scenario in the matcher's first processFracture, at
\* turn 1, it binds to it: the matcher marks it bound, emits the binding and
\* stores the causality edge from the premonition to the fracture.
ScenarioEchoBindsAtTurnOne ==
  [][( /\ lastOp'.op = "matcher.processFracture"
       /\ lastOp'.a = ScenarioStimulus.id
       /\ premonitionMatcher.turnCounter = 0
       /\ Has(premonitionMatcher.activePremonitions, 31)
       /\ Get(premonitionMatcher.activePremonitions, 31).createdAtTurn = 0
       /\ Get(premonitionMatcher.activePremonitions, 31).bindingAttempts = 0
       /\ ~Get(premonitionMatcher.activePremonitions, 31).isBound )
       => /\ Get(premonitionMatcher'.activePremonitions, 31).isBound
          /\ \E i \in 1..Len(emitted') : emitted'[i] = Event("binding", 31, 11)
          /\ Has(memoryGraph'.edges, <<31, 11, "causality">>)]_vars

(***************************************************************************)
(* The collapse threshold of a character under mutation and                *)
(* reconfiguration.                                                        *)
(***************************************************************************)
\* configurations whose default collapse threshold is below, inside and above
\* the range the kernel clamps to
ThresholdConfigs ==
  {[defaultCollapseThreshold |-> threshold, premonitionValidityWindow |-> 1,
    mutationRate |-> <<1, 20>>, emotionalMemoryWeight |-> <<3, 5>>,
    contradictionTolerance |-> <<3, 10>>] : threshold \in {<<1, 5>>, <<7, 10>>, <<6, 5>>}}

\* the threshold adjustments that reach both ends of the range
WideThresholdAdjustments == {<<-1, 1>>, <<1, 10>>}

\* characterKernel.reconfigureCharacter(characterId, emotionalState, adjustment)
\* with one emotional state; lastOp.b is the adjustment
DoAdjustThreshold ==
  /\ \E characterId \in KnownCharacterIds, adjustment \in WideThresholdAdjustments :
       Commit([World(NoRandom) EXCEPT
                 !.characterKernel =
                   ReconfigureCharacter(@, characterId,
                     [dominant |-> "joy", intensity |-> ROne, stability |-> <<4, 5>>],
                     adjustment)],
              "reconfigureCharacter", characterId, adjustment)
  /\ UNCHANGED <<matcherCalls, bindingCalls>>

NextThreshold ==
  \/ DoCreateCharacter
  \/ DoApplyMutation
  \/ DoAdjustThreshold

SpecThreshold == InitOf(ThresholdConfigs) /\ [][NextThreshold]_vars

\* x brought into [0.1, 0.9]
ClampedToRange(x) ==
  IF RLt(x, <<1, 10>>) THEN <<1, 10>> ELSE IF RLt(<<9, 10>>, x) THEN <<9, 10>> ELSE x

\* C21: after applyMutation or reconfigureCharacter on an existing character
\* its collapse threshold lies in [0.1, 0.9]: applyMutation sets it to the
\* configured default minus 0.2 x the fold's intensity, clamped, whatever it
\* was before; reconfigureCharacter sets it to the previous value plus the
\* adjustment, clamped
ThresholdClampedByMutationAndReconfigure ==
  [][(lastOp'.op \in {"applyMutation", "reconfigureCharacter"}
      /\ Has(characterKernel.characters, lastOp'.a))
     => LET before == Get(characterKernel.characters, lastOp'.a).collapseThreshold
            after == Get(characterKernel'.characters, lastOp'.a).collapseThreshold
        IN  /\ RLe(<<1, 10>>, after)
            /\ RLe(after, <<9, 10>>)
            /\ lastOp'.op = "applyMutation"
                 => after = ClampedToRange(RSub(config.defaultCollapseThreshold,
                                                RMul(<<1, 5>>, lastOp'.b.intensity)))
            /\ lastOp'.op = "reconfigureCharacter"
                 => after = ClampedToRange(RAdd(before, lastOp'.b))]_vars

\* a character's threshold has been adjusted by -1 and stands at the lower end
\* of the range
ThresholdLoweredToFloor ==
  /\ lastOp.op = "reconfigureCharacter"
  /\ lastOp.b = <<-1, 1>>
  /\ Has(characterKernel.characters, lastOp.a)
  /\ Get(characterKernel.characters, lastOp.a).collapseThreshold = <<1, 10>>

(***************************************************************************)
(* McTavish with several characters: stimuli are introduced to characters  *)
(* that react and characters that do not.                                  *)
(***************************************************************************)
\* at most MaxActors characters are created
MaxActors == 2

\* at most MaxStimuli fractures are introduced
MaxStimuli == 2

\* uuidv4() hands out at most MaxStimulusUuid ids
MaxStimulusUuid == 14

\* characterKernel.createCharacter(name, undefined, undefined, collapseThreshold)
DoCreateActor ==
  /\ Size(characterKernel.characters) < MaxActors
  /\ \E name \in Names, collapseThreshold \in CollapseThresholdInputs :
       CommitWithin(CreateCharacter(World(NoRandom), name, NoMeta, NoMeta,
                                    collapseThreshold),
                    "createCharacter", Undefined, Undefined, MaxStimulusUuid)
  /\ UNCHANGED <<matcherCalls, bindingCalls>>

\* the numbers Math.random() returns while a stimulus is processed: in the
\* first a reaction draws joy at intensity 0.5 and no premonition follows, in
\* the second a reaction draws joy at intensity 0.8 and a premonition follows
StimulusRandomStreams ==
  {<<RZero, <<1, 2>>, <<1, 2>>, <<1, 2>>>>,
   <<RZero, <<4, 5>>, <<4, 5>>, <<1, 10>>, RZero, <<1, 2>>, <<1, 2>>>>}

\* mctavish.introduceFracture(content)
DoIntroduceStimulus ==
  /\ Size(collapseEngine.activeFractures) < MaxStimuli
  /\ \E content \in IntroducedContents, random \in StimulusRandomStreams :
       CommitWithin(IntroduceFracture(World(random), content, "user"),
                    "introduceFracture", UuidOf(uuidCount + 1), Undefined,
                    MaxStimulusUuid)
  /\ UNCHANGED <<matcherCalls, bindingCalls>>

NextStimulus ==
  \/ DoCreateActor
  \/ DoIntroduceStimulus

SpecStimulus == Init /\ [][NextStimulus]_vars

\* the steps of one kind in a log, in order
StepsOf(log, step) == SelectSeq(log, LAMBDA s : s.step = step)

\* the ids of the steps of a log, in order
StepIds(log) == [i \in DOMAIN log |-> log[i].id]

\* the events of one name among those emitted
EventsOf(events, name) == SelectSeq(events, LAMBDA e : e.ev = name)

\* C22: in processFracture every character is evaluated once, in the kernel's
\* order, against the collapse threshold it has at that moment; a
\* recursionFold is emitted for it if and only if its tension (0.5 + 0.3 + 0.2)
\* is at least that threshold; the emission is followed at once, before the
\* next character is evaluated, by one applyMutation on that character; and a
\* character for which nothing is emitted is not mutated
ReactionIffTensionThenOneMutation ==
  [][lastOp'.op = "introduceFracture"
     => LET log == calls'
            tension == ROne
            ids == characterKernel.characters.keys
        IN  /\ lastOp'.ret = "void"
            /\ StepIds(StepsOf(log, "evaluate")) = ids
            /\ Len(EventsOf(emitted', "recursionFold"))
                 = Len(StepsOf(log, "recursionFold"))
            /\ \A i \in DOMAIN log :
                 /\ log[i].step = "evaluate"
                      => /\ log[i].x = Get(characterKernel.characters, log[i].id).collapseThreshold
                         /\ IF RLe(log[i].x, tension)
                            THEN /\ i + 2 <= Len(log)
                                 /\ log[i + 1].step = "recursionFold"
                                 /\ log[i + 1].id = log[i].id
                                 /\ log[i + 2].step = "applyMutation"
                                 /\ log[i + 2].id = log[i].id
                            ELSE /\ i + 1 <= Len(log)
                                      => log[i + 1].step \in {"premonition", "evaluate"}
                                 /\ Get(characterKernel'.characters, log[i].id)
                                      = Get(characterKernel.characters, log[i].id)
                                 /\ Get(characterKernel'.emotionalStates, log[i].id)
                                      = Get(characterKernel.emotionalStates, log[i].id)
                 /\ log[i].step = "recursionFold"
                      => /\ i > 1
                         /\ log[i - 1].step = "evaluate"
                         /\ log[i - 1].id = log[i].id
                 /\ log[i].step = "applyMutation"
                      => /\ i > 1
                         /\ log[i - 1].step = "recursionFold"
                         /\ log[i - 1].id = log[i].id]_vars

\* a stimulus has been introduced to two characters: the first did not react,
\* the second reacted and was mutated
SecondActorAloneReacted ==
  /\ lastOp.op = "introduceFracture"
  /\ Len(StepsOf(calls, "evaluate")) = 2
  /\ RLt(ROne, StepsOf(calls, "evaluate")[1].x)
  /\ StepIds(StepsOf(calls, "applyMutation")) = <<StepsOf(calls, "evaluate")[2].id>>

\* C23: among the events one processFracture call emits, no recursionFold
\* comes after a premonition: the reactions to a stimulus are all emitted
\* before its echoes, for any number of characters
ReactionsPrecedeEchoes ==
  lastOp.op = "introduceFracture"
    => \A i, j \in DOMAIN emitted :
         (i < j /\ emitted[i].ev = "premonition") => emitted[j].ev # "recursionFold"

(***************************************************************************)
(* McTavish with listeners a caller has added to the collapse engine and   *)
(* the premonition matcher, some of which throw.                           *)
(***************************************************************************)
\* the events whose added listener throws while a stimulus is introduced, and
\* while the matcher processes one
EngineListenerFailures == {{}, {"recursionFold"}, {"premonition"}}
MatcherListenerFailures == {{}, {"binding"}}

\* mctavish.introduceFracture(content); lastOp.a is the content and the numbers
\* Math.random() returns, lastOp.b the events whose listener throws
DoIntroduceOverheardStimulus ==
  /\ Size(collapseEngine.activeFractures) < MaxStimuli
  /\ \E content \in IntroducedContents, random \in StimulusRandomStreams,
        failing \in EngineListenerFailures :
       CommitWithin(IntroduceFracture([World(random) EXCEPT !.failing = failing],
                                      content, "user"),
                    "introduceFracture", [content |-> content, random |-> random],
                    failing, MaxStimulusUuid)
  /\ UNCHANGED <<matcherCalls, bindingCalls>>

\* premonitionMatcher.processFracture(fracture) for a fracture of the store;
\* lastOp.a is the fracture, lastOp.b the events whose listener throws
DoMatchOverheardStimulus ==
  /\ matcherCalls < MaxCalls
  /\ \E fracture \in StoredFractures, failing \in MatcherListenerFailures :
       CommitWithin(MatcherProcessFracture([World(NoRandom) EXCEPT !.failing = failing],
                                           fracture),
                    "matcher.processFracture", fracture, failing, MaxStimulusUuid)
  /\ matcherCalls' = matcherCalls + 1
  /\ UNCHANGED bindingCalls

NextListener ==
  \/ DoCreateActor
  \/ DoIntroduceOverheardStimulus
  \/ DoMatchOverheardStimulus

SpecListener == Init /\ [][NextListener]_vars

\* the components are, after the step, as world w has them
ComponentsBecome(w) ==
  /\ characterKernel' = w.characterKernel
  /\ collapseEngine' = w.collapseEngine
  /\ premonitionMatcher' = w.premonitionMatcher
  /\ memoryGraph' = w.memoryGraph
  /\ interactionBinding' = w.interactionBinding

\* C24: a listener that throws on recursionFold, premonition or binding does
\* not change what the emitting operation does to the components: after
\* introduceFracture and after the matcher's processFracture they are as the
\* same call leaves them when no listener throws (the reacting character is
\* mutated, the remaining characters are evaluated, the bound premonition is
\* marked bound, the expired premonitions are dropped)
ListenerFailureLeavesOperationWhole ==
  [][/\ lastOp'.op = "introduceFracture"
          => ComponentsBecome(IntroduceFracture(World(lastOp'.a.random),
                                                lastOp'.a.content, "user"))
     /\ lastOp'.op = "matcher.processFracture"
          => ComponentsBecome(MatcherProcessFracture(World(NoRandom), lastOp'.a))]_vars

(***************************************************************************)
(* The operations that fork: a node of the store, a fracture through the   *)
(* interaction binding logic, a character of the kernel.                   *)
(***************************************************************************)
\* interactionBinding.forkFracture(fractureId), for a node of the store or an
\* id it has never seen; lastOp.b is the id returned
DoForkFracture ==
  /\ Size(memoryGraph.nodes) < MaxNodes
  /\ \E fractureId \in SetOf(memoryGraph.nodes.keys) \cup {UnknownFracture.id} :
       LET w == ForkFracture(World(NoRandom), fractureId)
       IN  Commit(w, "forkFracture", fractureId,
                  IF w.thrown THEN Undefined ELSE UuidOf(w.uuidCount))
  /\ UNCHANGED <<matcherCalls, bindingCalls>>

NextFork ==
  \/ DoStoreFracture
  \/ DoForkAtNode
  \/ DoForkFracture
  \/ DoCreateProfiledCharacter
  \/ DoForkCharacter

SpecFork == Init /\ [][NextFork]_vars

\* C25: no operation raises an error to its caller except addEdge for a missing
\* endpoint: forkFracture, forkCharacter and forkAtNode given an unknown id
\* return instead of throwing
OnlyAddEdgeThrows ==
  lastOp.ret = "throws" => lastOp.op = "addEdge"

(***************************************************************************)
(* The interaction binding logic given folds and fractures the store may   *)
(* not hold.                                                               *)
(***************************************************************************)
\* interactionBinding.createReverseBinding(foldId, content), for a fold id a
\* caller may have submitted; lastOp.b is the content
DoCreateReverseBinding ==
  /\ bindingCalls < MaxBindingCalls
  /\ \E foldId \in FoldIds :
       Commit(CreateReverseBinding(World(NoRandom), foldId, TextRedSky),
              "createReverseBinding", foldId, TextRedSky)
  /\ bindingCalls' = bindingCalls + 1
  /\ UNCHANGED matcherCalls

NextReverse ==
  \/ DoBindingProcessFracture
  \/ DoProcessFold
  \/ DoCreateReverseBinding

SpecReverse == Init /\ [][NextReverse]_vars

\* C26: createReverseBinding for a fold id that is no node of the store, and
\* processFold for a fold naming a fracture id that is no node of the store,
\* leave the store and the binding records as they were and emit no
\* interaction event
AbsentNodeChangesNothing ==
  [][(\/ lastOp'.op = "createReverseBinding" /\ ~HasNode(memoryGraph, lastOp'.a)
      \/ /\ lastOp'.op = "processFold"
         /\ lastOp'.b # Undefined
         /\ ~HasNode(memoryGraph, lastOp'.b))
     => /\ memoryGraph' = memoryGraph
        /\ interactionBinding' = interactionBinding
        /\ emitted' = <<>>]_vars

\* binding criteria and a validity window as the specification wants them: both
\* weights in [0, 1], the window a positive number of turns
WellFormedCriteria(bindingCriteria, validityWindow) ==
  /\ RLe(RZero, bindingCriteria.contentSimilarity)
  /\ RLe(bindingCriteria.contentSimilarity, ROne)
  /\ RLe(RZero, bindingCriteria.emotionalAlignment)
  /\ RLe(bindingCriteria.emotionalAlignment, ROne)
  /\ validityWindow > 0

\* C27: addPremonition rejects a premonition whose binding criteria are
\* malformed: after the call the premonition is in the active set, or in the
\* store, only if its weights lie in [0, 1] and its validity window is positive
MalformedEchoRejected ==
  [][lastOp'.op = "addPremonition"
     => LET id == lastOp'.a
            active == premonitionMatcher'.activePremonitions
        IN  /\ Has(active, id)
                 => WellFormedCriteria(Get(active, id).premonition.bindingCriteria,
                                       Get(active, id).premonition.validityWindow)
            /\ HasNode(memoryGraph', id)
                 => WellFormedCriteria(GetNode(memoryGraph', id).metadata.bindingCriteria,
                                       GetNode(memoryGraph', id).metadata.validityWindow)]_vars

(***************************************************************************)
(* Paths through the memory graph: findPaths and getCanonicalPath.         *)
(***************************************************************************)
\* graph.successors(v) || []
Successors(g, v) == IF v \in DOMAIN g.graph.sucs THEN g.graph.sucs[v] ELSE <<>>

\* path.includes(id)
PathIncludes(path, id) == \E i \in 1..Len(path) : path[i] = id

\* MemoryGraphStore.dfs: allPaths after the search from current has returned
RECURSIVE Dfs(_, _, _, _, _, _)
Dfs(g, current, target, path, allPaths, maxDepth) ==
  IF Len(path) > maxDepth THEN allPaths
  ELSE IF current = target THEN Append(allPaths, path)
  ELSE LET successors == Successors(g, current)
           RECURSIVE Visit(_, _)
           Visit(i, found) ==
             IF i > Len(successors) THEN found
             ELSE Visit(i + 1,
                        IF ~PathIncludes(path, successors[i])
                        THEN Dfs(g, successors[i], target,
                                 Append(path, successors[i]), found, maxDepth)
                        ELSE found)
       IN  Visit(1, allPaths)

\* MemoryGraphStore.findPaths
FindPaths(g, sourceId, targetId, maxDepth) ==
  Dfs(g, sourceId, targetId, <<sourceId>>, <<>>, maxDepth)

\* MemoryGraphStore.getSuccessors
GetSuccessors(g, nodeId) ==
  LET ids == SelectSeq(Successors(g, nodeId), LAMBDA id : HasNode(g, id))
  IN  [i \in 1..Len(ids) |-> Get(g.nodes, ids[i])]

\* nodes.reduce of getCanonicalPath: the node of the earliest timestamp, the
\* first of them among equals
RECURSIVE EarliestNode(_, _, _)
EarliestNode(nodes, i, earliest) ==
  IF i > Len(nodes) THEN earliest
  ELSE EarliestNode(nodes, i + 1,
                    IF nodes[i].timestamp < earliest.timestamp THEN nodes[i]
                    ELSE earliest)

\* the for loop of getCanonicalPath: the unvisited successor of the heaviest
\* edge, the first of them among equals; found is FALSE while bestSuccessor
\* is null
RECURSIVE BestSuccessor(_, _, _, _, _, _)
BestSuccessor(g, current, successors, visited, i, best) ==
  IF i > Len(successors) THEN best
  ELSE LET successor == successors[i]
           edges == GetEdgesBetween(g, current, successor.id)
       IN  BestSuccessor(g, current, successors, visited, i + 1,
             IF successor.id \in visited \/ Len(edges) = 0 THEN best
             ELSE IF RLt(best.weight, edges[1].weight)
                  THEN [found |-> TRUE, node |-> successor, weight |-> edges[1].weight]
                  ELSE best)

\* the while loop of getCanonicalPath
RECURSIVE FollowBest(_, _, _, _)
FollowBest(g, path, current, visited) ==
  LET successors == GetSuccessors(g, current)
      best == BestSuccessor(g, current, successors, visited, 1,
                            [found |-> FALSE, node |-> Undefined, weight |-> <<-1, 1>>])
  IN  IF Len(successors) = 0 \/ ~best.found THEN path
      ELSE FollowBest(g, Append(path, best.node), best.node.id,
                      visited \cup {best.node.id})

\* getCanonicalPath that leaves its start node out of the path
GetCanonicalPathWithoutStart(g) ==
  LET nodes == Values(g.nodes)
  IN  IF Len(nodes) = 0 THEN <<>>
      ELSE LET startNode == EarliestNode(nodes, 2, nodes[1])
           IN  Tail(FollowBest(g, <<startNode>>, startNode.id, {startNode.id}))

\* MemoryGraphStore.getCanonicalPath
GetCanonicalPath(g) ==
  LET nodes == Values(g.nodes)
  IN  IF Len(nodes) = 0 THEN <<>>
      ELSE LET startNode == EarliestNode(nodes, 2, nodes[1])
           IN  FollowBest(g, <<startNode>>, startNode.id, {startNode.id})

\* the store holds at most MaxPathEdges edges set by addEdge
MaxPathEdges == 3

\* the depths a caller searches to
MaxDepths == {1, 2, 3}

\* the weights of the edges a caller sets between stored nodes
LinkWeights == {<<1, 2>>, ROne}

\* memoryGraph.addEdge(edge) between two stored nodes, a node and itself
\* included; lastOp.a is the edge given
DoLinkNodes ==
  /\ Size(memoryGraph.edges) < MaxPathEdges
  /\ \E source \in SetOf(memoryGraph.nodes.keys), target \in SetOf(memoryGraph.nodes.keys),
        weight \in LinkWeights :
       LET edge == [source |-> source, target |-> target, type |-> "causality",
                    weight |-> weight, metadata |-> NoMeta]
       IN  Commit(AddEdgeCall(World(NoRandom), edge), "addEdge", edge, Undefined)
  /\ UNCHANGED <<matcherCalls, bindingCalls>>

\* memoryGraph.addEdge(edge) from one stored node to another; lastOp.a is the
\* edge given
DoChainNodes ==
  /\ Size(memoryGraph.edges) < MaxPathEdges
  /\ \E source \in SetOf(memoryGraph.nodes.keys) :
     \E target \in SetOf(memoryGraph.nodes.keys) \ {source} :
       LET edge == [source |-> source, target |-> target, type |-> "causality",
                    weight |-> ROne, metadata |-> NoMeta]
       IN  Commit(AddEdgeCall(World(NoRandom), edge), "addEdge", edge, Undefined)
  /\ UNCHANGED <<matcherCalls, bindingCalls>>

\* memoryGraph.findPaths(sourceId, targetId, maxDepth), from a stored node or
\* an id the store has never seen to a stored node; lastOp.b is the array
\* returned
DoFindPaths ==
  /\ \E sourceId \in SetOf(memoryGraph.nodes.keys) \cup {UnknownFracture.id},
        targetId \in SetOf(memoryGraph.nodes.keys), maxDepth \in MaxDepths :
       Commit(World(NoRandom), "findPaths",
              [sourceId |-> sourceId, targetId |-> targetId, maxDepth |-> maxDepth],
              FindPaths(memoryGraph, sourceId, targetId, maxDepth))
  /\ UNCHANGED <<matcherCalls, bindingCalls>>

\* memoryGraph.getCanonicalPath(); lastOp.b is the array returned
DoGetCanonicalPath ==
  /\ Commit(World(NoRandom), "getCanonicalPath", Undefined,
            GetCanonicalPath(memoryGraph))
  /\ UNCHANGED <<matcherCalls, bindingCalls>>

NextPaths ==
  \/ DoStoreFracture
  \/ DoForkAtNode
  \/ DoChainNodes
  \/ DoFindPaths

SpecPaths == Init /\ [][NextPaths]_vars

NextCanonical ==
  \/ DoStoreFracture
  \/ DoLinkNodes
  \/ DoGetCanonicalPath

SpecCanonical == Init /\ [][NextCanonical]_vars

\* the simple paths of the graph from source to target of at most maxHops edges
SimplePaths(g, source, target, maxHops) ==
  LET ids == SetOf(g.nodes.keys) \cup {source}
  IN  {p \in UNION {[1..n -> ids] : n \in 1..(maxHops + 1)} :
         /\ p[1] = source
         /\ p[Len(p)] = target
         /\ \A i, j \in 1..Len(p) : i # j => p[i] # p[j]
         /\ \A i \in 1..(Len(p) - 1) : <<p[i], p[i + 1]>> \in DOMAIN g.graph.label}

\* C28: findPaths(source, target, maxDepth) returns every simple path from
\* source to target of at most maxDepth edges, those of exactly maxDepth edges
\* included, each of them once, and nothing else
FindPathsUpToMaxDepthHops ==
  lastOp.op = "findPaths"
    => LET paths == lastOp.b
           given == lastOp.a
       IN  /\ SetOf(paths) = SimplePaths(memoryGraph, given.sourceId,
                                         given.targetId, given.maxDepth)
           /\ \A i, j \in 1..Len(paths) : i # j => paths[i] # paths[j]

\* what findPaths returns: the simple paths of at most maxDepth nodes
FindPathsUpToMaxDepthNodes ==
  lastOp.op = "findPaths"
    => LET paths == lastOp.b
           given == lastOp.a
       IN  /\ SetOf(paths) = SimplePaths(memoryGraph, given.sourceId,
                                         given.targetId, given.maxDepth - 1)
           /\ \A i, j \in 1..Len(paths) : i # j => paths[i] # paths[j]

WithinUnit(x) == RLe(RZero, x) /\ RLe(x, ROne)

\* the binding criteria of every premonition of the store weigh within [0,1]
CriteriaWeightsWithinUnit(g) ==
  \A node \in SetOf(GetNodesByType(g, "premonition")) :
    /\ WithinUnit(node.metadata.bindingCriteria.contentSimilarity)
    /\ WithinUnit(node.metadata.bindingCriteria.emotionalAlignment)

\* C30: every edge of the store weighs within [0,1] after any sequence of
\* operations, the edges the matcher weighs by the match score included, while
\* the binding criteria weigh within [0,1]
EdgeWeightsWithinUnit ==
  CriteriaWeightsWithinUnit(memoryGraph)
    => \A edge \in SetOf(Values(memoryGraph.edges)) : WithinUnit(edge.weight)

(***************************************************************************)
(* Nodes once stored.                                                      *)
(***************************************************************************)
\* C31: once a node of some id is in the store, no operation changes its
\* kind, its content or its creation timestamp: adding a node whose id is
\* already present does not replace the stored node
StoredNodeKeepsIdentity ==
  [][\A id \in DOMAIN memoryGraph.nodes.at \cap DOMAIN memoryGraph'.nodes.at :
       /\ GetNode(memoryGraph', id).type = GetNode(memoryGraph, id).type
       /\ GetNode(memoryGraph', id).content = GetNode(memoryGraph, id).content
       /\ GetNode(memoryGraph', id).timestamp = GetNode(memoryGraph, id).timestamp]_vars

(***************************************************************************)
(* The canonical path on graphs with edges of several kinds.               *)
(***************************************************************************)
\* the kinds and the weights of the edges a caller sets between stored nodes
LinkKinds == {"causality", "emotional"}
KindWeights == {<<1, 5>>, ROne}

\* memoryGraph.addEdge(edge) from one stored node to another, of either kind
\* and either weight; lastOp.a is the edge given
DoLinkKinds ==
  /\ Size(memoryGraph.edges) < MaxPathEdges
  /\ \E source \in SetOf(memoryGraph.nodes.keys), type \in LinkKinds,
        weight \in KindWeights :
       \E target \in SetOf(memoryGraph.nodes.keys) \ {source} :
         LET edge == [source |-> source, target |-> target, type |-> type,
                      weight |-> weight, metadata |-> NoMeta]
         IN  Commit(AddEdgeCall(World(NoRandom), edge), "addEdge", edge, Undefined)
  /\ UNCHANGED <<matcherCalls, bindingCalls>>

NextGreedy ==
  \/ DoStoreFracture
  \/ DoForkAtNode
  \/ DoLinkKinds
  \/ DoGetCanonicalPath

SpecGreedy == Init /\ [][NextGreedy]_vars

\* the stored edges from one node to another
StoredEdges(g, source, target) ==
  {edge \in SetOf(Values(g.edges)) : edge.source = source /\ edge.target = target}

\* the stored edges that leave a node for a node outside visited
EdgesToUnvisited(g, source, visited) ==
  {edge \in SetOf(Values(g.edges)) : edge.source = source /\ edge.target \notin visited}

\* C32: getCanonicalPath returns a sequence that starts at the node of the
\* earliest timestamp, holds no node twice, has a stored edge between each
\* consecutive pair, moves at each step to the unvisited successor whose
\* connecting edge weighs most, and stops exactly when the current node has
\* no unvisited successor
CanonicalPathIsGreedy ==
  lastOp.op = "getCanonicalPath" /\ Size(memoryGraph.nodes) > 0
    => LET path == lastOp.b
           ids == [i \in 1..Len(path) |-> path[i].id]
           visited(i) == {ids[k] : k \in 1..i}
       IN  /\ Len(path) >= 1
           /\ \A node \in SetOf(Values(memoryGraph.nodes)) :
                path[1].timestamp <= node.timestamp
           /\ \A i, j \in 1..Len(path) : i # j => ids[i] # ids[j]
           /\ \A i \in 1..(Len(path) - 1) :
                /\ StoredEdges(memoryGraph, ids[i], ids[i + 1]) # {}
                /\ \A other \in EdgesToUnvisited(memoryGraph, ids[i], visited(i)) :
                     \E taken \in StoredEdges(memoryGraph, ids[i], ids[i + 1]) :
                       RLe(other.weight, taken.weight)
           /\ EdgesToUnvisited(memoryGraph, ids[Len(path)], visited(Len(path))) = {}

(***************************************************************************)
(* CharacterKernel.traverseMemory.                                         *)
(***************************************************************************)
\* CharacterKernel.getMemoryTraversalPreference
GetMemoryTraversalPreference(w, characterId) ==
  IF ~Has(w.characterKernel.characters, characterId)
  THEN [emotionalWeight |-> <<1, 2>>, recencyWeight |-> <<3, 10>>,
        causalityWeight |-> <<1, 5>>, contradictionTolerance |-> <<1, 2>>,
        maxDepth |-> 5]
  ELSE [emotionalWeight |-> config.emotionalMemoryWeight, recencyWeight |-> <<3, 10>>,
        causalityWeight |-> <<1, 5>>,
        contradictionTolerance |-> config.contradictionTolerance,
        maxDepth |-> 5 + Floor(RMul(Random(w), <<3, 1>>))]

\* queue.sort((a, b) => b[1] - a[1]): the sorted queue with one more entry put
\* behind every entry of at least its priority (the sort is stable)
RECURSIVE InsertByPriority(_, _)
InsertByPriority(sorted, entry) ==
  IF sorted = <<>> THEN <<entry>>
  ELSE IF RLt(Head(sorted).priority, entry.priority) THEN <<entry>> \o sorted
       ELSE <<Head(sorted)>> \o InsertByPriority(Tail(sorted), entry)

RECURSIVE SortByPriority(_)
SortByPriority(queue) ==
  IF queue = <<>> THEN <<>>
  ELSE InsertByPriority(SortByPriority(SubSeq(queue, 1, Len(queue) - 1)),
                        queue[Len(queue)])

\* the contradiction test left out
ContradictionNeverPruned(edge, preferences) == FALSE

\* the contradiction test of weightedMemoryTraversal
ContradictionPruned(edge, preferences) ==
  edge.type = "contradiction" /\ RLt(preferences.contradictionTolerance, edge.weight)

\* the priority weightedMemoryTraversal gives a successor reached by edge from a
\* node of the given priority
SuccessorPriority(successor, edge, priority, preferences, emotionalState) ==
  LET sameDominant ==
        /\ "emotionalState" \in DOMAIN successor.metadata
        /\ successor.metadata.emotionalState.dominant = emotionalState.dominant
      emotionalPriority ==
        IF edge.type # "emotional" THEN RZero
        ELSE IF sameDominant THEN RMul(edge.weight, <<3, 2>>) ELSE edge.weight
      ageInMs == now - successor.timestamp
      recencyPriority == RMax(RZero, RSub(ROne, Rat(ageInMs, 1000 * 60 * 60 * 24)))
      causalityPriority == IF edge.type = "causality" THEN edge.weight ELSE RZero
      overallPriority ==
        RAdd(RAdd(RMul(emotionalPriority, preferences.emotionalWeight),
                  RMul(recencyPriority, preferences.recencyWeight)),
             RMul(causalityPriority, preferences.causalityWeight))
  IN  RMul(RMul(overallPriority, priority), <<9, 10>>)

\* the for loop of weightedMemoryTraversal: the queue after the successors of
\* nodeId from the i-th on have been looked at
RECURSIVE PushSuccessors(_, _, _, _, _, _, _, _, _)
PushSuccessors(g, nodeId, priority, successors, i, visited, queue, preferences, emotionalState) ==
  IF i > Len(successors) THEN queue
  ELSE LET successor == successors[i]
           edgesBetween == GetEdgesBetween(g, nodeId, successor.id)
           pushed ==
             IF \/ successor.id \in visited
                \/ Len(edgesBetween) = 0
                \/ ContradictionPruned(edgesBetween[1], preferences)
             THEN queue
             ELSE Append(queue,
                         [id |-> successor.id,
                          priority |-> SuccessorPriority(successor, edgesBetween[1],
                                                         priority, preferences,
                                                         emotionalState)])
       IN  PushSuccessors(g, nodeId, priority, successors, i + 1, visited, pushed,
                          preferences, emotionalState)

\* the while loop of weightedMemoryTraversal
RECURSIVE TraverseQueue(_, _, _, _, _, _, _)
TraverseQueue(g, queue, visited, result, preferences, emotionalState, maxNodes) ==
  IF Len(queue) = 0 \/ Len(result) >= maxNodes THEN result
  ELSE LET sorted == SortByPriority(queue)
           nodeId == sorted[1].id
           priority == sorted[1].priority
           rest == Tail(sorted)
       IN  IF nodeId \in visited
           THEN TraverseQueue(g, rest, visited, result, preferences, emotionalState,
                              maxNodes)
           ELSE TraverseQueue(g,
                              PushSuccessors(g, nodeId, priority,
                                             GetSuccessors(g, nodeId), 1,
                                             visited \cup {nodeId}, rest, preferences,
                                             emotionalState),
                              visited \cup {nodeId}, Append(result, nodeId),
                              preferences, emotionalState, maxNodes)

\* weightedMemoryTraversal that visits one node more than maxNodes
WeightedMemoryTraversalOneMore(g, startNodeId, preferences, emotionalState, maxNodes) ==
  TraverseQueue(g, <<[id |-> startNodeId, priority |-> ROne]>>, {}, <<>>,
                preferences, emotionalState, maxNodes + 1)

\* CharacterKernel.weightedMemoryTraversal
WeightedMemoryTraversal(g, startNodeId, preferences, emotionalState, maxNodes) ==
  TraverseQueue(g, <<[id |-> startNodeId, priority |-> ROne]>>, {}, <<>>,
                preferences, emotionalState, maxNodes)

\* CharacterKernel.traverseMemory: the array returned; startNodeId is Undefined
\* when the caller leaves it out
TraverseMemory(w, characterId, startNodeId, maxNodes) ==
  IF ~Has(w.characterKernel.characters, characterId) THEN <<>>
  ELSE LET character == Get(w.characterKernel.characters, characterId)
           startId == IF startNodeId = Undefined THEN character.memoryAnchor
                      ELSE startNodeId
           preferences == GetMemoryTraversalPreference(w, characterId)
       IN  IF ~Has(w.characterKernel.emotionalStates, characterId) THEN <<>>
           ELSE WeightedMemoryTraversal(w.memoryGraph, startId, preferences,
                                        Get(w.characterKernel.emotionalStates,
                                            characterId),
                                        maxNodes)

\* the store holds at most MaxMemoryLinks edges set between memories by addEdge
MaxMemoryLinks == 2

\* the kinds and weights of the edges set between memories: a causal edge, a
\* contradiction within the tolerance of 0.3 and one beyond it
MemoryLinks ==
  {[type |-> "causality", weight |-> ROne],
   [type |-> "contradiction", weight |-> <<1, 5>>],
   [type |-> "contradiction", weight |-> <<9, 10>>]}

\* what a caller asks traverseMemory for: the known actor from its anchor or
\* from fracture 11, for two or three nodes, and for three nodes from an id
\* the store has never seen; an unknown actor from its anchor
TraversalInputs ==
  {given \in [characterId : KnownCharacterIds,
              startNodeId : {Undefined, 11, UnknownFracture.id},
              maxNodes : {2, 3}] :
     /\ given.characterId = UnknownCharacter
          => given.startNodeId = Undefined /\ given.maxNodes = 3
     /\ given.startNodeId = UnknownFracture.id => given.maxNodes = 3}

\* characterKernel.createCharacter(name), for the one actor that traverses
DoCreateTraverser ==
  /\ Size(characterKernel.characters) = 0
  /\ \E name \in Names :
       Commit(CreateCharacter(World(NoRandom), name, NoMeta, NoMeta, NoNumber),
              "createCharacter", UuidOf(uuidCount + 2), Undefined)
  /\ UNCHANGED <<matcherCalls, bindingCalls>>

\* memoryGraph.addEdge(edge) from a stored node to a stored fracture; lastOp.a
\* is the edge given
DoLinkMemories ==
  /\ Size(memoryGraph.edges) < MaxMemoryLinks
  /\ \E source \in SetOf(memoryGraph.nodes.keys), link \in MemoryLinks :
       \E target \in (SetOf(memoryGraph.nodes.keys) \cap FractureIds) \ {source} :
         LET edge == [source |-> source, target |-> target, type |-> link.type,
                      weight |-> link.weight, metadata |-> NoMeta]
         IN  Commit(AddEdgeCall(World(NoRandom), edge), "addEdge", edge, Undefined)
  /\ UNCHANGED <<matcherCalls, bindingCalls>>

\* characterKernel.traverseMemory(characterId, startNodeId, maxNodes); lastOp.a
\* is what the caller asked for, lastOp.b the array returned
DoTraverseMemory ==
  /\ \E given \in TraversalInputs :
       LET w == World(<<<<2, 3>>>>)
       IN  Commit(w, "traverseMemory", given,
                  TraverseMemory(w, given.characterId, given.startNodeId,
                                 given.maxNodes))
  /\ UNCHANGED <<matcherCalls, bindingCalls>>

NextTraverse ==
  \/ DoCreateTraverser
  \/ DoStoreFracture
  \/ DoLinkMemories
  \/ DoTraverseMemory

SpecTraverse == Init /\ [][NextTraverse]_vars

\* the nodes one edge of the given set away from a node of the given set
RECURSIVE ReachableBy(_, _)
ReachableBy(pairs, from) ==
  LET further == from \cup {pair[2] : pair \in {q \in pairs : q[1] \in from}}
  IN  IF further = from THEN from ELSE ReachableBy(pairs, further)

\* the pairs of nodes that have an edge in the store
StoredPairs(g) == {<<edge.source, edge.target>> : edge \in SetOf(Values(g.edges))}

\* the pairs of nodes whose edge set last is no contradiction beyond the
\* tolerance
ToleratedPairs(g, tolerance) ==
  {pair \in DOMAIN g.graph.label :
     ~(/\ g.graph.label[pair].type = "contradiction"
       /\ RLt(tolerance, g.graph.label[pair].weight))}

\* the node a traversal recorded in lastOp starts at
TraversalStart ==
  IF lastOp.a.startNodeId = Undefined
  THEN Get(characterKernel.characters, lastOp.a.characterId).memoryAnchor
  ELSE lastOp.a.startNodeId

\* C33: traverseMemory returns at most maxNodes node ids, none of them twice,
\* the first of them the start node (the actor's anchor when no start is
\* given) and every other one reachable from it along edges of the store; for
\* an unknown actor it returns the empty sequence
TraversalBoundedFromStart ==
  lastOp.op = "traverseMemory"
    => LET result == lastOp.b
       IN  IF ~Has(characterKernel.characters, lastOp.a.characterId)
           THEN result = <<>>
           ELSE /\ Len(result) <= lastOp.a.maxNodes
                /\ \A i, j \in 1..Len(result) : i # j => result[i] # result[j]
                /\ lastOp.a.maxNodes > 0 => Len(result) > 0 /\ result[1] = TraversalStart
                /\ \A i \in 2..Len(result) :
                     result[i] \in ReachableBy(StoredPairs(memoryGraph), {TraversalStart})

\* a traversal cut short at maxNodes while a third node was in reach
TraversalCutShort ==
  /\ lastOp.op = "traverseMemory"
  /\ Has(characterKernel.characters, lastOp.a.characterId)
  /\ lastOp.a.maxNodes = 2
  /\ Len(lastOp.b) = 2
  /\ Cardinality(ReachableBy(StoredPairs(memoryGraph), {TraversalStart})) = 3

\* C34: traverseMemory never follows a contradiction edge whose weight exceeds
\* the contradiction tolerance: a node in reach of the start only through such
\* an edge is not in the result, also when an edge of another kind was set
\* between the same two nodes before
TraversalPrunesContradictions ==
  lastOp.op = "traverseMemory" /\ Has(characterKernel.characters, lastOp.a.characterId)
    => \A i \in 1..Len(lastOp.b) :
         lastOp.b[i] \in ReachableBy(ToleratedPairs(memoryGraph,
                                                    config.contradictionTolerance),
                                     {TraversalStart})

\* a traversal that stays at the anchor: its one successor lies behind a
\* contradiction of weight 0.9, set after a causal edge between the same nodes
ContradictionHidesCausalEdge ==
  /\ lastOp.op = "traverseMemory"
  /\ Has(characterKernel.characters, lastOp.a.characterId)
  /\ lastOp.a.startNodeId = Undefined
  /\ lastOp.a.maxNodes = 3
  /\ lastOp.b = <<TraversalStart>>
  /\ Has(memoryGraph.edges, <<TraversalStart, 11, "causality">>)
  /\ Has(memoryGraph.edges, <<TraversalStart, 11, "contradiction">>)
  /\ Get(memoryGraph.edges, <<TraversalStart, 11, "contradiction">>).weight = <<9, 10>>

(***************************************************************************)
(* One processFracture call of the matcher.                                *)
(***************************************************************************)
\* the fracture of the given id as the matcher's caller holds it
FractureGiven(g, id) ==
  IF HasNode(g, id) THEN FractureOfNode(GetNode(g, id)) ELSE UnknownFracture

\* the premonition of the state is unbound and unexpired at the given turn and
\* its match score with the fracture is at least its threshold at its next
\* attempt
DueToBind(state, fracture, turnCounter) ==
  /\ ~state.isBound
  /\ turnCounter <= state.expiresAtTurn
  /\ MeetsThreshold(CalculateMatchScore(state.premonition, fracture),
                    GetBindingThreshold([state EXCEPT !.bindingAttempts = @ + 1],
                                        turnCounter))

\* what a processFracture call of the matcher that has just ended did: the
\* binding events come in non-increasing order of binding strength, no
\* premonition twice; a premonition has an event if and only if it was due to
\* bind; each event has its bound state and its causality edge of the weight
\* of the match score; and no other edge was added
BoundAsDue ==
  LET states == premonitionMatcher.activePremonitions
      turnCounter == premonitionMatcher.turnCounter + 1
      fracture == FractureGiven(memoryGraph, lastOp'.a)
      bindings == EventsOf(emitted', "binding")
      strength(id) == CalculateBindingStrength(Get(states, id).premonition.bindingCriteria)
      edgeId(id) == <<id, fracture.id, "causality">>
  IN  /\ \A i, j \in 1..Len(bindings) :
           i < j => /\ RLe(strength(bindings[j].a), strength(bindings[i].a))
                    /\ bindings[i].a # bindings[j].a
      /\ \A id \in DOMAIN states.at :
           (\E i \in 1..Len(bindings) : bindings[i].a = id)
             <=> DueToBind(Get(states, id), fracture, turnCounter)
      /\ \A i \in 1..Len(bindings) :
           /\ bindings[i].b = fracture.id
           /\ Has(premonitionMatcher'.activePremonitions, bindings[i].a)
           /\ Get(premonitionMatcher'.activePremonitions, bindings[i].a).isBound
           /\ Has(memoryGraph'.edges, edgeId(bindings[i].a))
           /\ Get(memoryGraph'.edges, edgeId(bindings[i].a)).weight
                = CalculateMatchScore(Get(states, bindings[i].a).premonition, fracture)
      /\ DOMAIN memoryGraph'.edges.at
           = DOMAIN memoryGraph.edges.at
               \cup {edgeId(bindings[i].a) : i \in 1..Len(bindings)}

\* C35: in one processFracture call of the matcher the binding events come in
\* non-increasing order of the binding strength of their premonitions; a
\* premonition binds in the call if and only if it is unbound, unexpired and
\* its match score is at least its threshold; and each bind adds one causality
\* edge premonition -> fracture that weighs the match score
BindsInStrengthOrderIffDue ==
  [][lastOp'.op = "matcher.processFracture" => BoundAsDue]_vars

\* the same for the fractures the store holds
BindsInStrengthOrderIffDueWhenStored ==
  [][lastOp'.op = "matcher.processFracture" /\ HasNode(memoryGraph, lastOp'.a)
       => BoundAsDue]_vars

(***************************************************************************)
(* The store's edges and its adjacency.                                    *)
(***************************************************************************)
\* clear that leaves the edges Map as it is
ClearKeepingEdges(g) == [g EXCEPT !.nodes = NewMap, !.graph = NewGraph]

\* MemoryGraphStore.clear
Clear(g) == NewMemoryGraph

\* memoryGraph.clear()
DoClear ==
  /\ Size(memoryGraph.nodes) > 0
  /\ Commit([World(NoRandom) EXCEPT !.memoryGraph = Clear(@)],
            "clear", Undefined, Undefined)
  /\ UNCHANGED <<matcherCalls, bindingCalls>>

\* memoryGraph.addEdge(edge), a causal edge from fracture 11 or an id the store
\* has never seen to fracture 12 or such an id; lastOp.a is the edge given
DoJoinFractures ==
  /\ \E source \in {11, UnknownFracture.id}, target \in {12, UnknownFracture.id} :
       LET edge == [source |-> source, target |-> target, type |-> "causality",
                    weight |-> ROne, metadata |-> NoMeta]
       IN  Commit(AddEdgeCall(World(NoRandom), edge), "addEdge", edge, Undefined)
  /\ UNCHANGED <<matcherCalls, bindingCalls>>

NextGraph ==
  \/ DoStoreFracture
  \/ DoJoinFractures
  \/ DoForkAtNode
  \/ DoCreateTraverser
  \/ DoForkCharacter
  \/ DoClear

SpecGraph == Init /\ [][NextGraph]_vars

\* C36: in every reachable state of the store both endpoints of every stored
\* edge are nodes of the store, and the adjacency that successors,
\* predecessors and getEdgesBetween read relates only pairs of nodes that
\* have an edge in the edges Map
EdgesJoinStoredNodes ==
  /\ \A edge \in SetOf(Values(memoryGraph.edges)) :
       HasNode(memoryGraph, edge.source) /\ HasNode(memoryGraph, edge.target)
  /\ \A pair \in DOMAIN memoryGraph.graph.label :
       /\ pair \in StoredPairs(memoryGraph)
       /\ memoryGraph.graph.label[pair] \in SetOf(Values(memoryGraph.edges))
  /\ \A v \in DOMAIN memoryGraph.graph.sucs :
       \A i \in 1..Len(memoryGraph.graph.sucs[v]) :
         <<v, memoryGraph.graph.sucs[v][i]>> \in StoredPairs(memoryGraph)

\* a store that was cleared while it held edges, and holds an edge again
EdgeAfterClear ==
  /\ lastOp.op = "forkCharacter"
  /\ lastOp.ret # "throws"
  /\ Size(memoryGraph.edges) = 2
  /\ Size(memoryGraph.nodes) = 2
  /\ uuidCount > 4

(***************************************************************************)
(* Binding records over time.                                              *)
(***************************************************************************)
\* C37: binding records only grow and only move forward: once a record for a
\* fracture exists, no operation removes a fold from its boundFoldIds, a
\* record that is resolved never returns to pending, and
\* getSelectedResponse(fracture) equals the record's selectedFoldId
BindingRecordsOnlyGrow ==
  [][LET records == interactionBinding.pendingBindings
         later == interactionBinding'.pendingBindings
     IN  /\ \A fractureId \in DOMAIN records.at :
              /\ Has(later, fractureId)
              /\ \A i \in 1..Len(Get(records, fractureId).boundFoldIds) :
                   SeqIncludes(Get(later, fractureId).boundFoldIds,
                               Get(records, fractureId).boundFoldIds[i])
              /\ Get(records, fractureId).status = "resolved"
                   => Get(later, fractureId).status = "resolved"
         /\ \A fractureId \in DOMAIN later.at :
              GetSelectedResponse(interactionBinding', fractureId)
                = Get(later, fractureId).selectedFoldId]_vars

(***************************************************************************)
(* Premonition bindings as the binding logic records them.                 *)
(***************************************************************************)
\* how many entries of a sequence satisfy a test
CountIn(seq, Test(_)) == Cardinality({i \in 1..Len(seq) : Test(seq[i])})

\* C38: each binding the matcher reports is recorded once: the premonition id
\* is once in the boundFoldIds of the fracture's record and one
\* premonition_binding interaction is emitted for it; and no boundFoldIds
\* holds an id twice
EchoBindingRecordedOnce ==
  [][/\ lastOp'.op = "matcher.processFracture"
          => \A i \in 1..Len(emitted') :
               emitted'[i].ev = "binding"
                 => LET id == emitted'[i].a
                        fractureId == emitted'[i].b
                        records == interactionBinding'.pendingBindings
                    IN  /\ CountIn(emitted', LAMBDA e : e.ev = "premonition_binding"
                                                        /\ e.a = id /\ e.b = fractureId) = 1
                        /\ Has(records, fractureId)
                        /\ CountIn(Get(records, fractureId).boundFoldIds,
                                   LAMBDA x : x = id) = 1
     /\ \A fractureId \in DOMAIN interactionBinding'.pendingBindings.at :
          LET bound == Get(interactionBinding'.pendingBindings, fractureId).boundFoldIds
          IN  \A i, j \in 1..Len(bound) : i # j => bound[i] # bound[j]]_vars


\* the store holds a causal edge fold -> fracture that a deferred binding made
DeferredEdge(g, foldId, fractureId) ==
  /\ Has(g.edges, <<foldId, fractureId, "causality">>)
  /\ "bindingType" \in DOMAIN Get(g.edges, <<foldId, fractureId, "causality">>).metadata
  /\ Get(g.edges, <<foldId, fractureId, "causality">>).metadata.bindingType = "deferred"

\* the fold is tied to a fracture already: stored naming it (addFold's causal
\* edge fracture -> fold) or bound to it by a deferred edge
TiedToFracture(g, foldId, fractureId) ==
  \/ Has(g.edges, <<fractureId, foldId, "causality">>)
  \/ DeferredEdge(g, foldId, fractureId)

\* C39: interactionBinding.processFracture(B) makes no deferred edge fold -> B
\* and does not list the fold in B's binding record when the fold was stored
\* naming another fracture A or is deferred-bound to another fracture A already
DeferredOnlyForFoldsWithoutFracture ==
  [][lastOp'.op = "binding.processFracture"
       => \A r \in FoldIds : \A A \in FractureIds \ {lastOp'.a} :
            (HasNode(memoryGraph, r) /\ TiedToFracture(memoryGraph, r, A))
              => /\ DeferredEdge(memoryGraph', r, lastOp'.a)
                      => DeferredEdge(memoryGraph, r, lastOp'.a)
                 /\ Has(interactionBinding'.pendingBindings, lastOp'.a)
                      => ~SeqIncludes(Get(interactionBinding'.pendingBindings,
                                          lastOp'.a).boundFoldIds, r)]_vars

\* the same statement for folds that carry the id of their fracture in their
\* metadata as well
DeferredOnlyForFoldsWithoutFractureInMetadata ==
  [][lastOp'.op = "binding.processFracture"
       => \A r \in FoldIds : \A A \in FractureIds \ {lastOp'.a} :
            (/\ HasNode(memoryGraph, r)
             /\ TiedToFracture(memoryGraph, r, A)
             /\ ~LacksFractureEventId(Get(memoryGraph.nodes, r)))
              => (DeferredEdge(memoryGraph', r, lastOp'.a)
                    => DeferredEdge(memoryGraph, r, lastOp'.a))]_vars


\* C40: a premonition the matcher reports as bound stays bound through every
\* later turn: after a matcher.processFracture it is still reported by
\* getBoundPremonitions and not by getActivePremonitions, that call emits no
\* premonitionExpired for it and does not bind it a second time
BoundEchoStaysBound ==
  [][lastOp'.op = "matcher.processFracture"
       => \A id \in PremonitionIds :
            SeqIncludes(GetBoundPremonitions(premonitionMatcher), id)
              => /\ SeqIncludes(GetBoundPremonitions(premonitionMatcher'), id)
                 /\ ~SeqIncludes(GetActivePremonitions(premonitionMatcher'), id)
                 /\ CountIn(emitted', LAMBDA e : e.ev = "premonitionExpired" /\ e.a = id) = 0
                 /\ CountIn(emitted', LAMBDA e : e.ev = "premonition_binding" /\ e.a = id) = 0]_vars

\* the same statement for the turns within the validity window of the bound
\* premonition
BoundEchoStaysBoundWithinWindow ==
  [][lastOp'.op = "matcher.processFracture"
       => \A id \in PremonitionIds :
            (/\ SeqIncludes(GetBoundPremonitions(premonitionMatcher), id)
             /\ premonitionMatcher'.turnCounter
                  <= Get(premonitionMatcher.activePremonitions, id).expiresAtTurn)
              => /\ SeqIncludes(GetBoundPremonitions(premonitionMatcher'), id)
                 /\ ~SeqIncludes(GetActivePremonitions(premonitionMatcher'), id)
                 /\ CountIn(emitted', LAMBDA e : e.ev = "premonitionExpired" /\ e.a = id) = 0
                 /\ CountIn(emitted', LAMBDA e : e.ev = "premonition_binding" /\ e.a = id) = 0]_vars

====
